---- MODULE Spec2Model ----
(***************************************************************************)
(* Model of the historical backfill engine (services/backfill.rs) and the  *)
(* realtime collector (services/realtime.rs) of tado-timescale.            *)
(*                                                                         *)
(* Instants (DateTime<Utc>) are whole seconds since the first modelled     *)
(* midnight; a calendar date (NaiveDate) is the number of that day.        *)
(* An Option is a list: None is the empty one, Some(x) holds x alone.      *)
(***************************************************************************)
EXTENDS Integers, Sequences, FiniteSets, TLC

None == <<>>
Some(x) == <<x>>

\* event_source constants
HISTORICAL == "historical"
REALTIME == "realtime"

\* Seconds of one calendar day: the distance between two consecutive
\* NaiveTime::MIN instants.
DayTicks == 24 * 60 * 60

\* BACKFILL_MIN_GAP_MINUTES default (240 minutes), in seconds.
DefaultMinGapMinutes == 240
DefaultMinGap == DefaultMinGapMinutes * 60

\* REALTIME_INTERVAL_SECS default.
DefaultRealtimeSecs == 60

\* ---------------------------------------------------------------- bounds
\* Stored and reported instants of the exhaustive exploration lie on a grid
\* of GridStep seconds, numbered 0..MaxGrid.
GridStep == 21600
MaxGrid == 9
\* Rows the store may hold before the gap detector runs.
MaxStoredRows == 2

GridTimes == {k * GridStep : k \in 0..MaxGrid}

\* ------------------------------------------------------------ identities
DbHomeId == 1
ZoneA == 1
ZoneB == 2

\* ------------------------------------------------------------ time helpers
date_naive(t) == t \div DayTicks
DayStart(d) == d * DayTicks

Max(a, b) == IF a >= b THEN a ELSE b
Min(a, b) == IF a <= b THEN a ELSE b
SetMax(S) == CHOOSE m \in S : \A q \in S : q <= m
SetMin(S) == CHOOSE m \in S : \A q \in S : m <= q

\* ----------------------------------------------------------------- rows
NewClimateMeasurement(time, home_id, zone_id, device_id, source) ==
    [time |-> time, home_id |-> home_id, zone_id |-> zone_id,
     device_id |-> device_id, source |-> source,
     inside_temp_c |-> None, humidity_pct |-> None, setpoint_temp_c |-> None,
     heating_power_pct |-> None, ac_power_on |-> None, ac_mode |-> None,
     window_open |-> None, battery_low |-> None, connection_up |-> None]

\* ------------------------------------------------------------------ gaps
Gap(start_, end_, start_inclusive) ==
    [start |-> start_, end |-> end_, start_inclusive |-> start_inclusive]

GapHoldsTsMut(ts, gap) == ts >= gap.start /\ ts <= gap.end

GapHoldsTs(ts, gap) ==
    LET lower_ok == IF gap.start_inclusive THEN ts >= gap.start ELSE ts > gap.start
    IN  lower_ok /\ ts < gap.end

timestamp_in_any_gap(ts, gaps) ==
    \E i \in 1..Len(gaps) : GapHoldsTs(ts, gaps[i])

\* The rows of the zone in the window, as the query of find_zone_gaps
\* selects them (no condition on the source column).
ZoneRowsInWindow(store, db_home_id, db_zone_id, start_, now_) ==
    {r \in store : /\ r.home_id = db_home_id
                   /\ r.zone_id = Some(db_zone_id)
                   /\ r.time >= start_
                   /\ r.time < now_}

\* SELECT time ... ORDER BY time ASC: one entry per row, duplicates kept.
RECURSIVE OrderByTimeAsc(_)
OrderByTimeAsc(rows) ==
    IF rows = {} THEN <<>>
    ELSE LET m == CHOOSE r \in rows : \A q \in rows : r.time <= q.time
         IN  <<m.time>> \o OrderByTimeAsc(rows \ {m})

\* while idx < times.len() && times[idx] < bound { idx += 1 }   (1-based)
RECURSIVE AdvanceIdx(_, _, _)
AdvanceIdx(times, idx, bound) ==
    IF idx <= Len(times) /\ times[idx] < bound
    THEN AdvanceIdx(times, idx + 1, bound)
    ELSE idx

FullDayGapMut(effective_start, day_end, min_gap_) ==
    <<Gap(effective_start, day_end, TRUE)>>

FullDayGap(effective_start, day_end, min_gap_) ==
    IF day_end - effective_start >= min_gap_
    THEN <<Gap(effective_start, day_end, TRUE)>>
    ELSE <<>>

LeadingGap(effective_start, first, min_gap_) ==
    IF first - effective_start >= min_gap_
    THEN <<Gap(effective_start, first, TRUE)>>
    ELSE <<>>

RECURSIVE InteriorGapsMut(_, _, _)
InteriorGapsMut(day_times, i, min_gap_) ==
    IF i > Len(day_times) THEN <<>>
    ELSE (IF day_times[i] - day_times[i - 1] >= min_gap_
          THEN <<Gap(day_times[i - 1], day_times[i], TRUE)>>
          ELSE <<>>)
         \o InteriorGapsMut(day_times, i + 1, min_gap_)

\* for &ts in &day_times[1..] { if ts - prev >= min_gap {...}; prev = ts }
RECURSIVE InteriorGaps(_, _, _)
InteriorGaps(day_times, i, min_gap_) ==
    IF i > Len(day_times) THEN <<>>
    ELSE (IF day_times[i] - day_times[i - 1] >= min_gap_
          THEN <<Gap(day_times[i - 1], day_times[i], FALSE)>>
          ELSE <<>>)
         \o InteriorGaps(day_times, i + 1, min_gap_)

TrailingGapMut(prev, day_end, min_gap_) ==
    IF day_end - prev > 0
    THEN <<Gap(prev, day_end, FALSE)>>
    ELSE <<>>

TrailingGap(prev, day_end, min_gap_) ==
    IF day_end - prev >= min_gap_
    THEN <<Gap(prev, day_end, FALSE)>>
    ELSE <<>>

DayGaps(day_times, effective_start, day_end, min_gap_) ==
    IF day_times = <<>>
    THEN FullDayGap(effective_start, day_end, min_gap_)
    ELSE LeadingGap(effective_start, day_times[1], min_gap_)
         \o InteriorGaps(day_times, 2, min_gap_)
         \o TrailingGap(day_times[Len(day_times)], day_end, min_gap_)

EffectiveStart(cursor_date, start_) ==
    IF cursor_date = date_naive(start_) /\ start_ > DayStart(cursor_date)
    THEN start_
    ELSE DayStart(cursor_date)

DayEnd(cursor_date, now_) ==
    IF cursor_date = date_naive(now_) THEN now_ ELSE DayStart(cursor_date + 1)

\* The day loop of find_zone_gaps; gaps is the BTreeMap built so far.
RECURSIVE FindZoneGapsLoop(_, _, _, _, _, _, _)
FindZoneGapsLoop(times, start_, now_, min_gap_, cursor_date, idx, gaps) ==
    IF cursor_date > date_naive(now_) THEN gaps
    ELSE
      LET effective_start == EffectiveStart(cursor_date, start_)
          day_end == DayEnd(cursor_date, now_)
      IN  IF day_end <= effective_start
          THEN FindZoneGapsLoop(times, start_, now_, min_gap_,
                                cursor_date + 1, idx, gaps)
          ELSE
            LET day_start_idx == AdvanceIdx(times, idx, effective_start)
                idx2 == AdvanceIdx(times, day_start_idx, day_end)
                day_times == SubSeq(times, day_start_idx, idx2 - 1)
                day_gaps == DayGaps(day_times, effective_start, day_end, min_gap_)
            IN  FindZoneGapsLoop(times, start_, now_, min_gap_,
                                 cursor_date + 1, idx2,
                                 IF day_gaps # <<>>
                                 THEN gaps @@ (cursor_date :> day_gaps)
                                 ELSE gaps)

find_zone_gaps(store, db_home_id, db_zone_id, start_, now_, min_gap_) ==
    IF start_ >= now_ THEN <<>>
    ELSE FindZoneGapsLoop(
            OrderByTimeAsc(ZoneRowsInWindow(store, db_home_id, db_zone_id, start_, now_)),
            start_, now_, min_gap_, date_naive(start_), 1, <<>>)

\* ---------------------------------------------------------- f64 values
\* An f64 measurement is the integer number of 1e-7 units it holds, so that
\* differences below and above FLOAT_EPSILON are both representable.
Scale == 10 ^ 7
BOGUS_TEMP_C == 20 * Scale
BOGUS_HUMIDITY_FRACTION == Scale \div 2
BOGUS_HUMIDITY_PERCENT == 50 * Scale
FLOAT_EPSILON == Scale \div (10 ^ 6)

Abs(x) == IF x < 0 THEN -x ELSE x

approx_eq(lhs, rhs) == Abs(lhs - rhs) <= FLOAT_EPSILON

\* ------------------------------------------------------------ day report
\* A DayReport holds one list per series; a series the response leaves out
\* (at any of its Option layers) is the empty list.
EmptyReport ==
    [inside_temperature |-> <<>>, humidity |-> <<>>,
     measuring_device_connected |-> <<>>, call_for_heat |-> <<>>,
     ac_activity |-> <<>>, settings |-> <<>>,
     weather_condition |-> <<>>, weather_slots |-> <<>>]

ZoneSetting(temperature, mode, power) ==
    [temperature |-> temperature, mode |-> mode, power |-> power]

WeatherConditionValue(state, temperature) ==
    [state |-> state, temperature |-> temperature]

\* serde names of the unit variants the model uses
serde_enum_name(val) ==
    CASE val = "Cool" -> Some("COOL")
      [] val = "Heat" -> Some("HEAT")
      [] val = "Sun" -> Some("SUN")
      [] val = "Rain" -> Some("RAIN")
      [] OTHER -> None

\* ------------------------------------------------------------ reconciler
\* by_ts is the BTreeMap<DateTime, NewClimateMeasurement> in iteration
\* order: a list of rows ascending by time.
HasEntry(by_ts_, ts) == \E i \in 1..Len(by_ts_) : by_ts_[i].time = ts

InsertByTime(by_ts_, row) ==
    LET before == SelectSeq(by_ts_, LAMBDA r : r.time < row.time)
        after == SelectSeq(by_ts_, LAMBDA r : r.time > row.time)
    IN  before \o <<row>> \o after

EntryOrInsertMut(by_ts_, ts, db_home_id, db_zone_id) ==
    by_ts_ \o <<NewClimateMeasurement(ts, db_home_id, Some(db_zone_id), None,
                                      HISTORICAL)>>

\* by_ts.entry(ts).or_insert_with(|| NewClimateMeasurement::new(...))
EntryOrInsert(by_ts_, ts, db_home_id, db_zone_id) ==
    IF HasEntry(by_ts_, ts) THEN by_ts_
    ELSE InsertByTime(by_ts_,
            NewClimateMeasurement(ts, db_home_id, Some(db_zone_id), None, HISTORICAL))

\* entry.<field> = Some(val)
SetField(by_ts_, ts, field, val) ==
    [i \in DOMAIN by_ts_ |->
        IF by_ts_[i].time = ts THEN [by_ts_[i] EXCEPT ![field] = Some(val)]
        ELSE by_ts_[i]]

Upsert(by_ts_, ts, field, val, db_home_id, db_zone_id) ==
    SetField(EntryOrInsert(by_ts_, ts, db_home_id, db_zone_id), ts, field, val)

ApplyInsideTemperature(by_ts_, dp, gaps, h, z) ==
    IF dp.timestamp # None /\ dp.celsius # None /\ timestamp_in_any_gap(dp.timestamp[1], gaps)
    THEN Upsert(by_ts_, dp.timestamp[1], "inside_temp_c", dp.celsius[1], h, z)
    ELSE by_ts_

ApplyHumidity(by_ts_, dp, gaps, h, z) ==
    IF dp.timestamp # None /\ dp.value # None /\ timestamp_in_any_gap(dp.timestamp[1], gaps)
    THEN Upsert(by_ts_, dp.timestamp[1], "humidity_pct", dp.value[1] * 100, h, z)
    ELSE by_ts_

ApplyDeviceConnected(by_ts_, di, gaps, h, z) ==
    IF di.from # None /\ di.value # None /\ timestamp_in_any_gap(di.from[1], gaps)
    THEN Upsert(by_ts_, di.from[1], "connection_up", di.value[1], h, z)
    ELSE by_ts_

CallForHeatPct(val) ==
    CASE val = "None_" -> 0
      [] val = "Low" -> 33
      [] val = "Medium" -> 66
      [] val = "High" -> 100

ApplyCallForHeat(by_ts_, di, gaps, h, z) ==
    IF di.from # None /\ di.value # None /\ timestamp_in_any_gap(di.from[1], gaps)
    THEN Upsert(by_ts_, di.from[1], "heating_power_pct",
                CallForHeatPct(di.value[1]) * Scale, h, z)
    ELSE by_ts_

ApplyAcActivity(by_ts_, di, gaps, h, z) ==
    IF di.from # None /\ di.value # None /\ timestamp_in_any_gap(di.from[1], gaps)
    THEN Upsert(by_ts_, di.from[1], "ac_power_on", di.value[1] = "On", h, z)
    ELSE by_ts_

\* The entry is created as soon as the interval has a value; each of the
\* three fields is then set only if the value carries it.
ApplySettings(by_ts_, di, gaps, h, z) ==
    IF di.from # None /\ timestamp_in_any_gap(di.from[1], gaps) /\ di.value # None
    THEN LET val == di.value[1]
             ts == di.from[1]
             setpoint == val.temperature
             ac_mode == IF val.mode = None THEN None
                        ELSE serde_enum_name(val.mode[1])
             ac_on == IF val.power = None THEN None ELSE Some(val.power[1] = "On")
             e0 == EntryOrInsert(by_ts_, ts, h, z)
             e1 == IF setpoint # None
                   THEN SetField(e0, ts, "setpoint_temp_c", setpoint[1]) ELSE e0
             e2 == IF ac_mode # None
                   THEN SetField(e1, ts, "ac_mode", ac_mode[1]) ELSE e1
         IN  IF ac_on # None THEN SetField(e2, ts, "ac_power_on", ac_on[1]) ELSE e2
    ELSE by_ts_

ApplyEntry(series, by_ts_, e, gaps, h, z) ==
    CASE series = "inside_temperature" -> ApplyInsideTemperature(by_ts_, e, gaps, h, z)
      [] series = "humidity" -> ApplyHumidity(by_ts_, e, gaps, h, z)
      [] series = "measuring_device_connected" -> ApplyDeviceConnected(by_ts_, e, gaps, h, z)
      [] series = "call_for_heat" -> ApplyCallForHeat(by_ts_, e, gaps, h, z)
      [] series = "ac_activity" -> ApplyAcActivity(by_ts_, e, gaps, h, z)
      [] series = "settings" -> ApplySettings(by_ts_, e, gaps, h, z)

\* for dp in series { ... }
RECURSIVE MergeSeries(_, _, _, _, _, _, _)
MergeSeries(series, entries, i, by_ts_, gaps, h, z) ==
    IF i > Len(entries) THEN by_ts_
    ELSE MergeSeries(series, entries, i + 1,
                     ApplyEntry(series, by_ts_, entries[i], gaps, h, z), gaps, h, z)

\* The climate part of one day's merge pass, in the order of the code.
MergeClimate(report, gaps, h, z) ==
    LET m1 == MergeSeries("inside_temperature", report.inside_temperature, 1, <<>>, gaps, h, z)
        m2 == MergeSeries("humidity", report.humidity, 1, m1, gaps, h, z)
        m3 == MergeSeries("measuring_device_connected",
                          report.measuring_device_connected, 1, m2, gaps, h, z)
        m4 == MergeSeries("call_for_heat", report.call_for_heat, 1, m3, gaps, h, z)
        m5 == MergeSeries("ac_activity", report.ac_activity, 1, m4, gaps, h, z)
    IN  MergeSeries("settings", report.settings, 1, m5, gaps, h, z)

measurement_is_leading_bogus(row) ==
    /\ row.inside_temp_c # None
    /\ row.humidity_pct # None
    /\ approx_eq(row.inside_temp_c[1], BOGUS_TEMP_C)
    /\ approx_eq(row.humidity_pct[1], BOGUS_HUMIDITY_PERCENT)
    /\ row.setpoint_temp_c = None
    /\ row.heating_power_pct = None
    /\ row.ac_power_on = None
    /\ row.ac_mode = None
    /\ row.window_open = None
    /\ row.battery_low = None
    /\ row.connection_up = None

remove_leading_bogus_rowsMut(rows_) ==
    SelectSeq(rows_, LAMBDA r : ~measurement_is_leading_bogus(r))

\* Drops the rows from the first one up to (not including) the first row
\* that is not leading-bogus.
RECURSIVE remove_leading_bogus_rows(_)
remove_leading_bogus_rows(rows_) ==
    IF rows_ # <<>> /\ measurement_is_leading_bogus(rows_[1])
    THEN remove_leading_bogus_rows(Tail(rows_))
    ELSE rows_

\* -------------------------------------------------------- weather rows
NewWeatherMeasurement(time, home_id, source) ==
    [time |-> time, home_id |-> home_id, source |-> source,
     outside_temp_c |-> None, solar_intensity_pct |-> None, weather_state |-> None]

HasWeatherEntry(weather_by_ts_, ts) ==
    \E i \in 1..Len(weather_by_ts_) : weather_by_ts_[i].time = ts

\* weather_by_ts.entry(ts).or_insert_with(|| NewWeatherMeasurement::new(...))
WeatherEntryOrInsert(weather_by_ts_, ts, h) ==
    IF HasWeatherEntry(weather_by_ts_, ts) THEN weather_by_ts_
    ELSE InsertByTime(weather_by_ts_, NewWeatherMeasurement(ts, h, HISTORICAL))

\* The entry is created for every interval inside the window and a gap,
\* before its value is looked at.
ApplyWeatherCondition(weather_by_ts_, di, window, gaps, h) ==
    IF di.from = None THEN weather_by_ts_
    ELSE IF di.from[1] < window[1] \/ di.from[1] >= window[2]
            \/ ~timestamp_in_any_gap(di.from[1], gaps)
    THEN weather_by_ts_
    ELSE LET ts == di.from[1]
             e0 == WeatherEntryOrInsert(weather_by_ts_, ts, h)
         IN  IF di.value = None THEN e0
             ELSE LET val == di.value[1]
                      e1 == IF val.temperature # None
                            THEN SetField(e0, ts, "outside_temp_c",
                                          val.temperature[1])
                            ELSE e0
                      name == IF val.state = None THEN None
                              ELSE serde_enum_name(val.state[1])
                  IN  IF name # None
                      THEN SetField(e1, ts, "weather_state", name[1])
                      ELSE e1

RECURSIVE MergeWeatherLoop(_, _, _, _, _, _)
MergeWeatherLoop(intervals, i, weather_by_ts_, window, gaps, h) ==
    IF i > Len(intervals) THEN weather_by_ts_
    ELSE MergeWeatherLoop(intervals, i + 1,
            ApplyWeatherCondition(weather_by_ts_, intervals[i], window, gaps, h),
            window, gaps, h)

\* if let Some((w_from, w_to)) = weather_window && ... { for di in cond {...} }
MergeWeather(report, window, gaps, h) ==
    IF window = None THEN <<>>
    ELSE MergeWeatherLoop(report.weather_condition, 1, <<>>, window[1], gaps, h)

\* NULL when the home has no weather row, else the greatest time.
MaxWeatherTime(store, h) ==
    LET ts == {r.time : r \in {q \in store : q.home_id = h}}
    IN  IF ts = {} THEN None ELSE Some(CHOOSE m \in ts : \A t \in ts : t <= m)

compute_weather_backfill_window(store, h, start_, now_) ==
    LET last_any == MaxWeatherTime(store, h)
        base_from == IF last_any = None THEN start_ ELSE last_any[1] + 1
    IN  <<Max(base_from, start_), now_>>

\* ------------------------------------------------------------ classifier
IndoorTempHasData(report) ==
    \E i \in 1..Len(report.inside_temperature) :
        report.inside_temperature[i].celsius # None

IndoorTempHasRealSignal(report) ==
    \E i \in 1..Len(report.inside_temperature) :
        /\ report.inside_temperature[i].celsius # None
        /\ ~approx_eq(report.inside_temperature[i].celsius[1], BOGUS_TEMP_C)

HumidityHasData(report) ==
    \E i \in 1..Len(report.humidity) : report.humidity[i].value # None

HumidityHasRealSignal(report) ==
    \E i \in 1..Len(report.humidity) :
        /\ report.humidity[i].value # None
        /\ ~approx_eq(report.humidity[i].value[1], BOGUS_HUMIDITY_FRACTION)

ConditionHasRealSignal(report) ==
    \E i \in 1..Len(report.weather_condition) :
        LET v == report.weather_condition[i].value
        IN  v # None /\ (v[1].temperature # None \/ v[1].state # None)

SlotsHaveRealSignal(report) ==
    \E i \in 1..Len(report.weather_slots) : report.weather_slots[i] # None

is_day_report_bogusNoData(report) ==
    /\ ~(IndoorTempHasRealSignal(report) \/ HumidityHasRealSignal(report))
    /\ ~(ConditionHasRealSignal(report) \/ SlotsHaveRealSignal(report))

is_day_report_bogusOutdoor(report) ==
    LET outdoor_has_real_signal ==
            ConditionHasRealSignal(report) \/ SlotsHaveRealSignal(report)
        outdoor_had_data ==
            Len(report.weather_condition) > 0
            \/ (~ConditionHasRealSignal(report) /\ Len(report.weather_slots) > 0)
    IN  outdoor_had_data /\ ~outdoor_has_real_signal

is_day_report_bogusIndoor(report) ==
    LET indoor_has_real_signal ==
            IndoorTempHasRealSignal(report) \/ HumidityHasRealSignal(report)
        indoor_had_data ==
            IndoorTempHasData(report)
            \/ (~IndoorTempHasRealSignal(report) /\ HumidityHasData(report))
    IN  indoor_had_data /\ ~indoor_has_real_signal

is_day_report_bogus(report) ==
    LET indoor_has_real_signal ==
            IndoorTempHasRealSignal(report) \/ HumidityHasRealSignal(report)
        indoor_had_data ==
            IndoorTempHasData(report)
            \/ (~IndoorTempHasRealSignal(report) /\ HumidityHasData(report))
        outdoor_has_real_signal ==
            ConditionHasRealSignal(report) \/ SlotsHaveRealSignal(report)
        outdoor_had_data ==
            Len(report.weather_condition) > 0
            \/ (~ConditionHasRealSignal(report) /\ Len(report.weather_slots) > 0)
        indoor_bogus == indoor_had_data /\ ~indoor_has_real_signal
        outdoor_bogus == outdoor_had_data /\ ~outdoor_has_real_signal
    IN  IF indoor_has_real_signal THEN FALSE
        ELSE indoor_bogus /\ outdoor_bogus

\* -------------------------------------------------- the remote's reports
\* Sample instants of a day's report: SlotsPerDay instants GridStep apart,
\* the first at midnight.
SlotsPerDay == 3
SlotTs(day, k) == DayStart(day) + (k - 1) * GridStep

T208 == BOGUS_TEMP_C + (8 * Scale) \div 10
TNear == BOGUS_TEMP_C + FLOAT_EPSILON \div 2
T21 == 21 * Scale
T12 == 12 * Scale
H055 == BOGUS_HUMIDITY_FRACTION + Scale \div 20

\* What the report holds at one sample instant, by kind of instant.
SlotKinds ==
    {"none", "sentinel", "genuine", "near", "temp_only", "sentinel_conn",
     "retemp", "heat", "ac_then_setting", "setting_full", "empty", "skipped"}

KindTemperature(kind, ts) ==
    CASE kind \in {"sentinel", "temp_only", "sentinel_conn"} ->
            <<[timestamp |-> Some(ts), celsius |-> Some(BOGUS_TEMP_C)]>>
      [] kind = "genuine" -> <<[timestamp |-> Some(ts), celsius |-> Some(T208)]>>
      [] kind = "near" -> <<[timestamp |-> Some(ts), celsius |-> Some(TNear)]>>
      [] kind = "retemp" -> <<[timestamp |-> Some(ts), celsius |-> Some(BOGUS_TEMP_C)],
                              [timestamp |-> Some(ts), celsius |-> Some(T208)]>>
      [] kind = "skipped" -> <<[timestamp |-> Some(ts), celsius |-> None]>>
      [] OTHER -> <<>>

KindHumidity(kind, ts) ==
    CASE kind \in {"sentinel", "near", "sentinel_conn"} ->
            <<[timestamp |-> Some(ts), value |-> Some(BOGUS_HUMIDITY_FRACTION)]>>
      [] kind = "genuine" -> <<[timestamp |-> Some(ts), value |-> Some(H055)]>>
      [] kind = "skipped" -> <<[timestamp |-> None, value |-> Some(H055)]>>
      [] OTHER -> <<>>

KindConnected(kind, ts) ==
    IF kind = "sentinel_conn" THEN <<[from |-> Some(ts), value |-> Some(TRUE)]>> ELSE <<>>

KindCallForHeat(kind, ts) ==
    IF kind = "heat" THEN <<[from |-> Some(ts), value |-> Some("Medium")]>> ELSE <<>>

KindAcActivity(kind, ts) ==
    IF kind = "ac_then_setting" THEN <<[from |-> Some(ts), value |-> Some("On")]>> ELSE <<>>

KindSettings(kind, ts) ==
    CASE kind = "ac_then_setting" ->
            <<[from |-> Some(ts),
               value |-> Some(ZoneSetting(None, Some("Cool"), Some("Off")))]>>
      [] kind = "setting_full" ->
            <<[from |-> Some(ts),
               value |-> Some(ZoneSetting(Some(T21), None, Some("On")))]>>
      [] kind = "empty" ->
            <<[from |-> Some(ts), value |-> Some(ZoneSetting(None, None, None))]>>
      [] kind = "skipped" -> <<[from |-> Some(ts), value |-> None]>>
      [] OTHER -> <<>>

KindWeather(kind, ts) ==
    CASE kind \in {"sentinel", "sentinel_conn"} -> <<[from |-> Some(ts), value |-> None]>>
      [] kind = "genuine" ->
            <<[from |-> Some(ts),
               value |-> Some(WeatherConditionValue(Some("Sun"), Some(T12)))]>>
      [] kind = "empty" ->
            <<[from |-> Some(ts), value |-> Some(WeatherConditionValue(None, None))]>>
      [] OTHER -> <<>>

RECURSIVE Flatten(_)
Flatten(seqs) == IF seqs = <<>> THEN <<>> ELSE Head(seqs) \o Flatten(Tail(seqs))

\* The report of a day whose k-th sample instant is of kind kinds[k].
DayReportOf(day, kinds) ==
    [inside_temperature |->
        Flatten([k \in DOMAIN kinds |-> KindTemperature(kinds[k], SlotTs(day, k))]),
     humidity |->
        Flatten([k \in DOMAIN kinds |-> KindHumidity(kinds[k], SlotTs(day, k))]),
     measuring_device_connected |->
        Flatten([k \in DOMAIN kinds |-> KindConnected(kinds[k], SlotTs(day, k))]),
     call_for_heat |->
        Flatten([k \in DOMAIN kinds |-> KindCallForHeat(kinds[k], SlotTs(day, k))]),
     ac_activity |->
        Flatten([k \in DOMAIN kinds |-> KindAcActivity(kinds[k], SlotTs(day, k))]),
     settings |->
        Flatten([k \in DOMAIN kinds |-> KindSettings(kinds[k], SlotTs(day, k))]),
     weather_condition |->
        Flatten([k \in DOMAIN kinds |-> KindWeather(kinds[k], SlotTs(day, k))]),
     weather_slots |-> <<>>]

\* ------------------------------------------------------------- the store
ClimateKey(r) == <<r.time, r.home_id, r.source, r.zone_id, r.device_id>>
WeatherKey(r) == <<r.home_id, r.time, r.source>>

InsertClimateOrSkipMut(store, rows_) ==
    {r \in store : \A i \in 1..Len(rows_) : ClimateKey(r) # ClimateKey(rows_[i])}
    \cup {rows_[i] : i \in 1..Len(rows_)}

\* INSERT ... ON CONFLICT (time, home_id, source, zone_id, device_id) DO NOTHING
RECURSIVE InsertClimateOrSkip(_, _)
InsertClimateOrSkip(store, rows_) ==
    IF rows_ = <<>> THEN store
    ELSE InsertClimateOrSkip(
            IF \E r \in store : ClimateKey(r) = ClimateKey(Head(rows_))
            THEN store ELSE store \cup {Head(rows_)},
            Tail(rows_))

\* INSERT ... ON CONFLICT (home_id, time, source) DO NOTHING
RECURSIVE InsertWeatherOrSkip(_, _)
InsertWeatherOrSkip(store, rows_) ==
    IF rows_ = <<>> THEN store
    ELSE InsertWeatherOrSkip(
            IF \E r \in store : WeatherKey(r) = WeatherKey(Head(rows_))
            THEN store ELSE store \cup {Head(rows_)},
            Tail(rows_))

\* ------------------------------------------------------- scheduler helpers
Zone(id, date_created) == [id |-> id, date_created |-> date_created]

\* The zone created first among those with an id and a creation instant.
select_reference_zone_and_start(zones_) ==
    LET ok == {i \in 1..Len(zones_) :
                  zones_[i].id # None /\ zones_[i].date_created # None}
    IN  IF ok = {} THEN None
        ELSE LET b == CHOOSE i \in ok :
                        \A k \in ok :
                            \/ zones_[i].date_created[1] < zones_[k].date_created[1]
                            \/ (zones_[i].date_created = zones_[k].date_created /\ i <= k)
             IN  Some(<<zones_[b].id[1], zones_[b].date_created[1]>>)

MinStartDt(from_date) ==
    IF from_date = None THEN None ELSE Some(DayStart(from_date[1]))

ClampStartMut(start_, min_dt) == start_

\* match min_start_dt_utc { Some(min_dt) if start < min_dt => min_dt, _ => start }
ClampStart(start_, min_dt) ==
    IF min_dt # None /\ start_ < min_dt[1] THEN min_dt[1] ELSE start_

\* Day of the year; day 0 of the model is a 1 January.
ordinal(day) == day + 1

RECURSIVE AscendingSeq(_)
AscendingSeq(S) ==
    IF S = {} THEN <<>>
    ELSE LET m == CHOOSE x \in S : \A y \in S : x <= y
         IN  <<m>> \o AscendingSeq(S \ {m})

DayIsFetchedMut(day, gaps_by_day_, first_day_, rate) ==
    /\ day >= first_day_
    /\ gaps_by_day_[day] # <<>>

\* The day loop's three `continue`s: a day is fetched unless one applies.
DayIsFetched(day, gaps_by_day_, first_day_, rate) ==
    /\ day >= first_day_
    /\ gaps_by_day_[day] # <<>>
    /\ ~(rate # None /\ day # first_day_ /\ ordinal(day) % rate[1] # 0)

DaysToFetchMut(gaps_by_day_, first_day_, rate) ==
    AscendingSeq({d \in DOMAIN gaps_by_day_ : gaps_by_day_[d] # <<>>})

\* The days `for (day, gaps) in gaps_by_day` reaches the fetch for, in order.
DaysToFetch(gaps_by_day_, first_day_, rate) ==
    AscendingSeq({d \in DOMAIN gaps_by_day_ :
                    DayIsFetched(d, gaps_by_day_, first_day_, rate)})

\* ------------------------------------------------------------- variables
VARIABLES
    climate_measurements, \* the climate hypertable: a set of rows
    weather_measurements, \* the weather hypertable: a set of rows
    start,                \* find_zone_gaps: start of the window
    now,                  \* the wall clock (Utc::now)
    min_gap,              \* configured backfill_min_gap, seconds
    gaps_by_day,          \* the map find_zone_gaps returned (date -> gaps)
    gap_pc,               \* find_zone_gaps alone: "input" before, "done" after
    cfg,                  \* Config: backfill_from_date, backfill_sample_rate
    zones,                \* the zones get_zones returns for the home
    remote,               \* the vendor's day report of each date
    pc,                   \* position of the thread of control
    run,                  \* number of the current run_for_home call
    zone_idx,             \* run_for_home: position of `for z in &zones`
    weather_window,       \* run_for_home: weather_window
    result,               \* what run_for_home returned: "Ok" or "Err"
    fetched,              \* the get_zone_day_report calls made, in order: zone, day, caller
    after_run1,           \* the store when the first run returned
    cls_start,            \* find_first_non_bogus_day: start
    cls_end,              \* find_first_non_bogus_day: end
    low,                  \* find_first_non_bogus_day: low
    high,                 \* find_first_non_bogus_day: high
    candidate,            \* find_first_non_bogus_day: candidate
    first_day,            \* backfill_zone_range: first_day
    pending,              \* backfill_zone_range: days the loop still fetches
    by_ts,                \* by_ts of the last day merged, before stripping
    weather_by_ts,        \* weather_by_ts of the last day merged
    rows,                 \* the climate rows the last day emitted
    interval,             \* run_loop: interval, seconds
    home_db_ids,          \* run_loop: cache tado_home_id -> db_home_id
    zone_maps,            \* run_loop: cache tado_home_id -> (tado_zone_id -> db_zone_id)
    ticks,                \* run_loop: tick_start, elapsed and sleep of each tick
    home_idx,             \* run_loop: position of `for home_id in home_ids`
    visited,              \* the fetches and inserts the current tick attempted
    failed,               \* the fetches and inserts that failed, by tick
    returned,             \* what collect_home returned, per home of the tick
    backfill_enabled,     \* Config: backfill_enabled
    realtime_enabled,     \* Config: realtime_enabled
    backfill_requests_per_second, \* Config: backfill_requests_per_second
    latencies,            \* the times the vendor may take to answer, ms
    live,                 \* the answers the vendor may give to the realtime calls
    main_idx,             \* run: position of `for home_id in &target_homes`
    clock,                \* the monotonic clock (Instant::now), ms
    fetch_times           \* start, elapsed and sleep of each day-report fetch

storeVars == <<climate_measurements, weather_measurements>>
gapVars == <<start, now, min_gap, gaps_by_day, gap_pc>>
cfgVars ==
    <<backfill_enabled, realtime_enabled, backfill_requests_per_second, latencies, live>>
envVars == <<cfg, zones, remote, cfgVars>>
runVars == <<pc, run, zone_idx, weather_window, result, fetched, after_run1>>
clsVars == <<cls_start, cls_end, low, high, candidate>>
dayVars == <<first_day, pending, by_ts, weather_by_ts, rows>>

rtVars == <<interval, home_db_ids, zone_maps, ticks, home_idx, visited, failed, returned>>
paceVars == <<clock, fetch_times>>

vars == <<storeVars, gapVars, envVars, runVars, clsVars, dayVars, rtVars, main_idx, paceVars>>

Config(from_date, sample_rate) ==
    [backfill_from_date |-> from_date, backfill_sample_rate |-> sample_rate]

\* ------------------------------------------------ the vendor's live data
\* models/tado.rs: the fields of ZoneState, Weather and Device that
\* collect_home reads.
TemperatureDataPoint(celsius, timestamp) ==
    [celsius |-> celsius, timestamp |-> timestamp]

PercentageDataPoint(percentage, timestamp) ==
    [percentage |-> percentage, timestamp |-> timestamp]

PowerDataPoint(value, timestamp) == [value |-> value, timestamp |-> timestamp]

SensorDataPoints(inside_temperature, humidity) ==
    [inside_temperature |-> inside_temperature, humidity |-> humidity]

ActivityDataPoints(heating_power, ac_power) ==
    [heating_power |-> heating_power, ac_power |-> ac_power]

ZoneState(setting, open_window, activity_data_points, sensor_data_points) ==
    [setting |-> setting, open_window |-> open_window,
     activity_data_points |-> activity_data_points,
     sensor_data_points |-> sensor_data_points]

Weather(solar_intensity, outside_temperature, weather_state) ==
    [solar_intensity |-> solar_intensity,
     outside_temperature |-> outside_temperature,
     weather_state |-> weather_state]

\* Device: connection_state (value, timestamp) and battery_state.
DeviceStatus(connection_state, battery_state) ==
    [connection_state |-> connection_state, battery_state |-> battery_state]

\* A zone that reports a temperature and a humidity without timestamps, a
\* sunny weather without timestamps, a connected device without timestamp.
IdleZoneState ==
    ZoneState(None, None, None,
              Some(SensorDataPoints(Some(TemperatureDataPoint(Some(T21), None)),
                                    Some(PercentageDataPoint(Some(55 * Scale), None)))))
IdleWeather ==
    Weather(None, Some(TemperatureDataPoint(Some(T12), None)),
            Some([value |-> Some("Sun"), timestamp |-> None]))
IdleDevice ==
    DeviceStatus(Some([value |-> Some(TRUE), timestamp |-> None]), Some("Normal"))

\* The answers the vendor may give to get_zone_state, get_weather and
\* get_devices, and whether a call or an insert of a tick may fail.
Live(zone, weather, device, may_fail) ==
    [zone |-> zone, weather |-> weather, device |-> device, may_fail |-> may_fail]
IdleLive == Live({IdleZoneState}, {IdleWeather}, {IdleDevice}, TRUE)

\* Values of the variables a specification does not use.
IdleEnv == cfg = Config(None, None) /\ zones = <<>> /\ remote = <<>>
IdleCfg ==
    /\ backfill_enabled = TRUE /\ realtime_enabled = TRUE
    /\ backfill_requests_per_second = None /\ latencies = {0}
    /\ live = IdleLive
IdleMain == main_idx = 1 /\ clock = 0 /\ fetch_times = <<>>
IdleRun ==
    /\ pc = "idle" /\ run = 1 /\ zone_idx = 1 /\ weather_window = None
    /\ result = "Running" /\ fetched = <<>> /\ after_run1 = None
IdleCls ==
    cls_start = 0 /\ cls_end = 0 /\ low = 0 /\ high = 0 /\ candidate = None
IdleDay ==
    /\ first_day = None /\ pending = <<>> /\ by_ts = <<>>
    /\ weather_by_ts = <<>> /\ rows = <<>>
IdleRt ==
    /\ interval = DefaultRealtimeSecs /\ home_db_ids = <<>> /\ zone_maps = <<>>
    /\ ticks = <<>> /\ home_idx = 1 /\ visited = {} /\ failed = {} /\ returned = <<>>

\* A climate row an earlier pass stored: a row with a measured temperature.
StoredRow(t, zone, source) ==
    [NewClimateMeasurement(t, DbHomeId, Some(zone), None, source)
        EXCEPT !.inside_temp_c = Some(T21)]

\* ------------------------------------------------- gap detector, alone
StartChoices == {0, GridStep, 4 * GridStep, 5 * GridStep}
NowChoices == {3 * GridStep, 8 * GridStep, MaxGrid * GridStep}
MinGapChoices == {DefaultMinGap, 2 * GridStep}

\* 15-minute samples 00:00..10:00 and 18:00..23:45 of day 0, seen at 24:00.
QuarterHour == 15 * 60
ScenarioTimes ==
    {k * QuarterHour : k \in 0..40} \cup {k * QuarterHour : k \in 72..95}
ScenarioStore ==
    {StoredRow(t, ZoneA, HISTORICAL) : t \in ScenarioTimes}

InitGapsGrid ==
    /\ climate_measurements = {}
    /\ weather_measurements = {}
    /\ start \in StartChoices
    /\ now \in NowChoices
    /\ min_gap \in MinGapChoices
    /\ gaps_by_day = <<>>
    /\ gap_pc = "input"
    /\ IdleEnv /\ IdleRun /\ IdleCls /\ IdleDay
    /\ IdleRt
    /\ IdleCfg /\ IdleMain

InitGapsScenario ==
    /\ climate_measurements = ScenarioStore
    /\ weather_measurements = {}
    /\ start = 0
    /\ now = DayTicks
    /\ min_gap = DefaultMinGap
    /\ gaps_by_day = <<>>
    /\ gap_pc = "input"
    /\ IdleEnv /\ IdleRun /\ IdleCls /\ IdleDay
    /\ IdleRt
    /\ IdleCfg /\ IdleMain

InitGaps == InitGapsGrid \/ InitGapsScenario

\* A row some earlier pass left in the store.
StoreRow ==
    /\ gap_pc = "input"
    /\ Cardinality(climate_measurements) < MaxStoredRows
    /\ \E t \in GridTimes, zs \in {<<ZoneA, HISTORICAL>>, <<ZoneA, REALTIME>>,
                                   <<ZoneB, HISTORICAL>>} :
          climate_measurements' = climate_measurements \cup
              {StoredRow(t, zs[1], zs[2])}
    /\ UNCHANGED <<weather_measurements, gapVars, envVars, runVars, clsVars, dayVars>>
    /\ UNCHANGED <<rtVars, main_idx, paceVars>>

FindZoneGaps ==
    /\ gap_pc = "input"
    /\ gaps_by_day' = find_zone_gaps(climate_measurements, DbHomeId, ZoneA,
                                     start, now, min_gap)
    /\ gap_pc' = "done"
    /\ UNCHANGED <<storeVars, start, now, min_gap, envVars, runVars, clsVars, dayVars>>
    /\ UNCHANGED <<rtVars, main_idx, paceVars>>

NextGaps == StoreRow \/ FindZoneGaps

SpecGaps == InitGaps /\ [][NextGaps]_vars

\* ----------------------------------------------------- reference data
\* The homes the collector is started for, and the rows of the homes,
\* zones and devices tables it reads.
home_ids == <<101, 102>>
HomesTable == (101 :> 1 @@ 102 :> 2)
ZonesTable(db_home_id) == IF db_home_id = 1 THEN (1 :> ZoneA @@ 2 :> ZoneB) ELSE <<>>
DevicesTable(db_home_id) == IF db_home_id = 1 THEN (1 :> 7) ELSE <<>>

\* What the vendor answers: home 101 has zones 1 and 2 and one zone without
\* id; home 102 has a zone the zones table does not know.
RemoteZones(home_id) ==
    IF home_id = 101
    THEN <<Zone(Some(1), Some(0)), Zone(None, None), Zone(Some(2), Some(0))>>
    ELSE <<Zone(Some(3), Some(0))>>

\* Devices by serial number: home 101 has device 1 and a device without
\* serial number; home 102 has a device the devices table does not know.
RemoteDevices(home_id) ==
    IF home_id = 101
    THEN <<[serial_no |-> Some(1)], [serial_no |-> None]>>
    ELSE <<[serial_no |-> Some(9)]>>

\* ------------------------------------------------------------ scheduler
CurrentZone == zones[zone_idx]

\* run_for_home: db_home_id, the homes row of the home the call is for.
CurrentDbHome == HomesTable[home_ids[main_idx]]

\* run_for_home up to its zone loop: get_zones, the id lookups and the
\* weather window of the home.
RunForHome ==
    /\ pc = "run_start"
    /\ \/ /\ pc' = "run_failed"
          /\ result' = "Err"
          /\ UNCHANGED <<zone_idx, weather_window>>
       \/ /\ LET reference_zone == select_reference_zone_and_start(zones)
             IN  weather_window' =
                    IF reference_zone = None THEN None
                    ELSE Some(compute_weather_backfill_window(
                            weather_measurements, CurrentDbHome,
                            ClampStart(reference_zone[1][2],
                                       MinStartDt(cfg.backfill_from_date)),
                            now))
          /\ zone_idx' = 1
          /\ pc' = "zone_loop"
          /\ result' = "Running"
    /\ UNCHANGED <<storeVars, gapVars, envVars, run, fetched, after_run1, clsVars, dayVars>>
    /\ UNCHANGED <<rtVars, main_idx, paceVars>>

OnStoreErrorMut(at) == at

\* A failed read or write of the store (`.map_err(..)?`, `find_zone_gaps(..)?`)
\* leaves backfill_zone_range and run_for_home with the error; `at` is
\* where the statement was executed.
OnStoreError(at) == "store_failed"

\* One pass of `for z in &zones` up to the call of backfill_zone_range, or
\* the return of run_for_home after the last zone; the query of
\* find_zone_gaps may fail.
ZoneStep ==
    /\ pc = "zone_loop"
    /\ IF zone_idx > Len(zones)
       THEN /\ pc' = "run_done"
            /\ result' = "Ok"
            /\ UNCHANGED <<zone_idx, start, gaps_by_day, cls_start, cls_end>>
       ELSE IF CurrentZone.id = None \/ CurrentZone.date_created = None
       THEN /\ zone_idx' = zone_idx + 1
            /\ UNCHANGED <<pc, result, start, gaps_by_day, cls_start, cls_end>>
       ELSE LET s == ClampStart(CurrentZone.date_created[1],
                                MinStartDt(cfg.backfill_from_date))
                g == find_zone_gaps(climate_measurements, CurrentDbHome,
                                    CurrentZone.id[1], s, now, min_gap)
            IN  \/ /\ pc' = OnStoreError(pc)
                   /\ result' = "Err"
                   /\ UNCHANGED <<zone_idx, start, gaps_by_day, cls_start, cls_end>>
                \/ /\ start' = s
                   /\ gaps_by_day' = g
                   /\ UNCHANGED result
                   /\ IF g = <<>>
                      THEN /\ zone_idx' = zone_idx + 1
                           /\ UNCHANGED <<pc, cls_start, cls_end>>
                      ELSE /\ cls_start' = SetMin(DOMAIN g)
                           /\ cls_end' = SetMax(DOMAIN g)
                           /\ pc' = "cls_call"
                           /\ UNCHANGED zone_idx
    /\ UNCHANGED <<storeVars, now, min_gap, gap_pc, envVars, run, weather_window,
                   fetched, after_run1, low, high, candidate, dayVars>>
    /\ UNCHANGED <<rtVars, main_idx, paceVars>>

\* find_first_non_bogus_day up to its loop.
ClassifierEnter ==
    /\ pc = "cls_call"
    /\ candidate' = None
    /\ IF cls_start > cls_end
       THEN pc' = "classified" /\ UNCHANGED <<low, high>>
       ELSE /\ low' = 0
            /\ high' = Max(cls_end - cls_start, 0)
            /\ pc' = "probe"
    /\ UNCHANGED <<storeVars, gapVars, envVars, run, zone_idx, weather_window,
                   result, fetched, after_run1, cls_start, cls_end, dayVars>>
    /\ UNCHANGED <<rtVars, main_idx, paceVars>>

ProbeZone == IF zones = <<>> THEN ZoneA ELSE CurrentZone.id[1]

\* The monotonic clock counts milliseconds.
MsPerSecond == 1000

\* run_for_home: day_report_spacing, 1/limit seconds as a Duration.
day_report_spacing(requests_per_second) ==
    IF requests_per_second = None THEN None
    ELSE Some(MsPerSecond \div requests_per_second[1])

fetch_day_report_with_limitMut(start_, elapsed, min_spacing) ==
    [start |-> start_, elapsed |-> elapsed, slept |-> 0]

\* fetch_day_report_with_limit: the call takes `elapsed`; whatever it
\* returned, the remainder of min_spacing is slept before returning.
fetch_day_report_with_limit(start_, elapsed, min_spacing) ==
    [start |-> start_, elapsed |-> elapsed,
     slept |-> IF min_spacing # None /\ elapsed < min_spacing[1]
               THEN min_spacing[1] - elapsed ELSE 0]

\* The fetch as the clock sees it: started now, returned after the call
\* and the sleep.
PacedFetch ==
    \E elapsed \in latencies :
       LET f == fetch_day_report_with_limit(
                    clock, elapsed, day_report_spacing(backfill_requests_per_second))
       IN  /\ fetch_times' = Append(fetch_times, f)
           /\ clock' = f.start + f.elapsed + f.slept

OnFetchErrorMut(at) == at

\* fetch_day_report_with_limit(..).map_err(..)?: the error leaves
\* backfill_zone_range and run_for_home; `at` is where the fetch was made.
OnFetchError(at) == "run_failed"

SearchStepSlow(low_, high_, candidate_, mid, day, bogus) ==
    IF bogus
    THEN [low |-> mid + 1, high |-> high_, candidate |-> candidate_, brk |-> FALSE]
    ELSE IF mid = 0
    THEN [low |-> low_, high |-> high_, candidate |-> Some(day), brk |-> TRUE]
    ELSE [low |-> low_, high |-> high_ - 1, candidate |-> Some(day), brk |-> FALSE]

SearchStepMut(low_, high_, candidate_, mid, day, bogus) ==
    IF bogus
    THEN [low |-> mid + 1, high |-> high_, candidate |-> candidate_, brk |-> FALSE]
    ELSE IF mid = 0
    THEN [low |-> low_, high |-> high_,
          candidate |-> IF candidate_ = None THEN Some(day) ELSE candidate_,
          brk |-> TRUE]
    ELSE [low |-> low_, high |-> mid - 1,
          candidate |-> IF candidate_ = None THEN Some(day) ELSE candidate_,
          brk |-> FALSE]

\* The body of `while low <= high` after the fetch; brk is the `break`.
SearchStep(low_, high_, candidate_, mid, day, bogus) ==
    IF bogus
    THEN [low |-> mid + 1, high |-> high_, candidate |-> candidate_, brk |-> FALSE]
    ELSE IF mid = 0
    THEN [low |-> low_, high |-> high_, candidate |-> Some(day), brk |-> TRUE]
    ELSE [low |-> low_, high |-> mid - 1, candidate |-> Some(day), brk |-> FALSE]

\* One pass of `while low <= high`: one day report fetched and classified.
Probe ==
    /\ pc = "probe"
    /\ low <= high
    /\ LET mid == low + (high - low) \div 2
           day == cls_start + mid
       IN  /\ fetched' = Append(fetched, <<ProbeZone, day, "probe">>)
           /\ PacedFetch
           /\ \/ /\ pc' = OnFetchError(pc)
                 /\ result' = "Err"
                 /\ UNCHANGED <<low, high, candidate>>
              \/ LET n == SearchStep(low, high, candidate, mid, day,
                                      is_day_report_bogus(remote[day]))
                 IN  /\ low' = n.low
                     /\ high' = n.high
                     /\ candidate' = n.candidate
                     /\ pc' = IF n.brk \/ n.low > n.high THEN "classified"
                              ELSE "probe"
                     /\ UNCHANGED result
    /\ UNCHANGED <<storeVars, gapVars, envVars, run, zone_idx, weather_window,
                   after_run1, cls_start, cls_end, dayVars>>
    /\ UNCHANGED <<rtVars, main_idx>>

\* backfill_zone_range after the search: return for a zone with only bogus
\* days, else enter the day loop.
AfterClassify ==
    /\ pc = "classified"
    /\ IF candidate = None
       THEN /\ zone_idx' = zone_idx + 1
            /\ pc' = "zone_loop"
            /\ UNCHANGED <<first_day, pending>>
       ELSE LET days == DaysToFetch(gaps_by_day, candidate[1],
                                    cfg.backfill_sample_rate)
            IN  /\ first_day' = candidate
                /\ pending' = days
                /\ IF days = <<>>
                   THEN zone_idx' = zone_idx + 1 /\ pc' = "zone_loop"
                   ELSE pc' = "day_loop" /\ UNCHANGED zone_idx
    /\ UNCHANGED <<storeVars, gapVars, envVars, run, weather_window, result,
                   fetched, after_run1, clsVars, by_ts, weather_by_ts, rows>>
    /\ UNCHANGED <<rtVars, main_idx, paceVars>>

\* One fetched day of the day loop: fetch, merge, strip, insert; the first
\* insert that fails returns the error, the rows of an insert before it
\* stay stored.
BackfillDay ==
    /\ pc = "day_loop"
    /\ pending # <<>>
    /\ LET day == Head(pending)
           gaps == gaps_by_day[day]
       IN  /\ fetched' = Append(fetched, <<CurrentZone.id[1], day, "day_loop">>)
           /\ PacedFetch
           /\ \/ /\ pc' = OnFetchError(pc)
                 /\ result' = "Err"
                 /\ UNCHANGED <<storeVars, zone_idx, pending, by_ts, weather_by_ts, rows>>
              \/ /\ by_ts' = MergeClimate(remote[day], gaps, CurrentDbHome, CurrentZone.id[1])
                 /\ rows' = remove_leading_bogus_rows(by_ts')
                 /\ weather_by_ts' = MergeWeather(remote[day], weather_window, gaps, CurrentDbHome)
                 /\ \/ /\ rows' # <<>>
                       /\ pc' = OnStoreError(pc)
                       /\ result' = "Err"
                       /\ UNCHANGED <<storeVars, zone_idx, pending>>
                    \/ /\ weather_by_ts' # <<>>
                       /\ climate_measurements' =
                              InsertClimateOrSkip(climate_measurements, rows')
                       /\ pc' = OnStoreError(pc)
                       /\ result' = "Err"
                       /\ UNCHANGED <<weather_measurements, zone_idx, pending>>
                    \/ /\ climate_measurements' =
                              InsertClimateOrSkip(climate_measurements, rows')
                       /\ weather_measurements' =
                              InsertWeatherOrSkip(weather_measurements, weather_by_ts')
                       /\ pending' = Tail(pending)
                       /\ IF Tail(pending) = <<>>
                          THEN zone_idx' = zone_idx + 1 /\ pc' = "zone_loop"
                          ELSE pc' = "day_loop" /\ UNCHANGED zone_idx
                       /\ UNCHANGED result
    /\ UNCHANGED <<gapVars, envVars, run, weather_window, after_run1, clsVars, first_day>>
    /\ UNCHANGED <<rtVars, main_idx>>

\* The process is started again over the same remote and the store left
\* by the first run.
SecondRun ==
    /\ pc = "run_done"
    /\ run = 1
    /\ run' = 2
    /\ after_run1' = Some([climate |-> climate_measurements,
                            weather |-> weather_measurements])
    /\ fetched' = <<>>
    /\ pc' = "run_start"
    /\ UNCHANGED <<storeVars, gapVars, envVars, zone_idx, weather_window, result,
                   clsVars, dayVars>>
    /\ UNCHANGED <<rtVars, main_idx, paceVars>>


\* ------------------------------------------------------ classifier, alone
MaxClsDay == 5
ClsDays == 0..MaxClsDay

BogusDay(day) == DayReportOf(day, [k \in 1..SlotsPerDay |-> "sentinel"])
GenuineDay(day) == DayReportOf(day, [k \in 1..SlotsPerDay |-> "genuine"])

InitClassifier ==
    /\ climate_measurements = {} /\ weather_measurements = {}
    /\ start = 0 /\ now = 0 /\ min_gap = DefaultMinGap
    /\ gaps_by_day = <<>> /\ gap_pc = "idle"
    /\ cfg = Config(None, None)
    /\ zones = <<>>
    /\ \E bogus \in [ClsDays -> BOOLEAN] :
          remote = [d \in ClsDays |-> IF bogus[d] THEN BogusDay(d) ELSE GenuineDay(d)]
    /\ pc = "cls_call" /\ run = 1 /\ zone_idx = 1 /\ weather_window = None
    /\ result = "Running" /\ fetched = <<>> /\ after_run1 = None
    /\ cls_start \in ClsDays
    /\ cls_end \in ClsDays
    /\ low = 0 /\ high = 0 /\ candidate = None
    /\ IdleDay
    /\ IdleRt
    /\ IdleCfg /\ IdleMain

NextClassifier == ClassifierEnter \/ Probe

SpecClassifier == InitClassifier /\ [][NextClassifier]_vars

\* --------------------------------------------- bogus-day predicate, alone
\* The search over a span of one day: the one probe classifies the day's
\* report, drawn from every report of up to MaxPoints temperature points
\* and weather intervals, at most one humidity point and one weather slot.
MaxPoints == 2

TAtEps == BOGUS_TEMP_C + FLOAT_EPSILON
TPastEps == BOGUS_TEMP_C + FLOAT_EPSILON + 1
HPastEps == BOGUS_HUMIDITY_FRACTION - FLOAT_EPSILON - 1

SeqsUpTo(S, n) == UNION {[1..k -> S] : k \in 0..n}

TemperaturePoints ==
    {[timestamp |-> Some(0), celsius |-> c] :
        c \in {None, Some(BOGUS_TEMP_C), Some(TAtEps), Some(TPastEps)}}
HumidityPoints ==
    {[timestamp |-> Some(0), value |-> v] :
        v \in {None, Some(BOGUS_HUMIDITY_FRACTION), Some(HPastEps)}}
ConditionIntervals ==
    {[from |-> Some(0), value |-> v] :
        v \in {None, Some(WeatherConditionValue(None, None)),
               Some(WeatherConditionValue(Some("Sun"), None)),
               Some(WeatherConditionValue(None, Some(T12)))}}
WeatherSlots == {None, Some("slot")}

InitBogusDay ==
    /\ climate_measurements = {} /\ weather_measurements = {}
    /\ start = 0 /\ now = 0 /\ min_gap = DefaultMinGap
    /\ gaps_by_day = <<>> /\ gap_pc = "idle"
    /\ cfg = Config(None, None)
    /\ zones = <<>>
    /\ \E temps \in SeqsUpTo(TemperaturePoints, MaxPoints),
          hums \in SeqsUpTo(HumidityPoints, 1),
          conds \in SeqsUpTo(ConditionIntervals, MaxPoints),
          slots \in SeqsUpTo(WeatherSlots, 1) :
          remote = (0 :> [EmptyReport EXCEPT !.inside_temperature = temps,
                                             !.humidity = hums,
                                             !.weather_condition = conds,
                                             !.weather_slots = slots])
    /\ pc = "cls_call" /\ run = 1 /\ zone_idx = 1 /\ weather_window = None
    /\ result = "Running" /\ fetched = <<>> /\ after_run1 = None
    /\ cls_start = 0 /\ cls_end = 0
    /\ low = 0 /\ high = 0 /\ candidate = None
    /\ IdleDay
    /\ IdleRt
    /\ IdleCfg /\ IdleMain

NextBogusDay == ClassifierEnter \/ Probe

SpecBogusDay == InitBogusDay /\ [][NextBogusDay]_vars

\* ------------------------------------------------------ reconciler, alone
\* One day of the day loop: zone A, day 0, seen at the end of the day, over
\* a store that holds nothing or one historical row of the zone.
ReconcileStores ==
    {{}} \cup {{StoredRow(t, ZoneA, HISTORICAL)} : t \in {0, GridStep}}

InitReconcile ==
    /\ climate_measurements \in ReconcileStores
    /\ weather_measurements = {}
    /\ start = 0 /\ now = DayTicks /\ min_gap = DefaultMinGap
    /\ gaps_by_day = find_zone_gaps(climate_measurements, DbHomeId, ZoneA,
                                    start, now, min_gap)
    /\ gap_pc = "idle"
    /\ cfg = Config(None, None)
    /\ zones = <<Zone(Some(ZoneA), Some(0))>>
    /\ \E kinds \in [1..SlotsPerDay -> SlotKinds] :
          remote = (0 :> DayReportOf(0, kinds))
    /\ pc = "day_loop" /\ run = 1 /\ zone_idx = 1
    /\ weather_window = Some(compute_weather_backfill_window(
                                weather_measurements, DbHomeId, start, now))
    /\ result = "Running" /\ fetched = <<>> /\ after_run1 = None
    /\ cls_start = 0 /\ cls_end = 0 /\ low = 0 /\ high = 0 /\ candidate = Some(0)
    /\ first_day = Some(0) /\ pending = <<0>>
    /\ by_ts = <<>> /\ weather_by_ts = <<>> /\ rows = <<>>
    /\ IdleRt
    /\ IdleCfg /\ IdleMain

NextReconcile == BackfillDay

SpecReconcile == InitReconcile /\ [][NextReconcile]_vars

\* ------------------------------------------------- the scheduler's runs
\* The home's history spans BackfillDays whole days, seen at the end of the
\* last one; run_for_home is called twice, as by two starts of the process.
BackfillDays == 3
HistoryDays == 0..(BackfillDays - 1)

LeadingBogusDay(day) ==
    DayReportOf(day, [k \in 1..SlotsPerDay |-> IF k = 1 THEN "sentinel" ELSE "genuine"])

BackfillConfigs == {Config(None, None), Config(None, Some(2)), Config(Some(1), None)}

BackfillZones ==
    {<<Zone(Some(ZoneA), Some(0))>>,
     <<Zone(None, Some(0)), Zone(Some(ZoneA), Some(0))>>,
     <<Zone(Some(ZoneA), Some(DayTicks + GridStep))>>}

BackfillStores == {{}, {StoredRow(GridStep, ZoneA, REALTIME)}}

InitBackfill ==
    /\ climate_measurements \in BackfillStores
    /\ weather_measurements = {}
    /\ start = 0 /\ now = BackfillDays * DayTicks
    /\ min_gap \in {DefaultMinGap, 3 * GridStep}
    /\ gaps_by_day = <<>> /\ gap_pc = "idle"
    /\ cfg \in BackfillConfigs
    /\ zones \in BackfillZones
    /\ \E tpl \in [HistoryDays -> {"bogus", "genuine", "leading"}] :
          remote = [d \in HistoryDays |->
                      CASE tpl[d] = "bogus" -> BogusDay(d)
                        [] tpl[d] = "genuine" -> GenuineDay(d)
                        [] tpl[d] = "leading" -> LeadingBogusDay(d)]
    /\ pc = "run_start" /\ run = 1 /\ zone_idx = 1 /\ weather_window = None
    /\ result = "Running" /\ fetched = <<>> /\ after_run1 = None
    /\ IdleCls /\ IdleDay
    /\ IdleRt
    /\ IdleCfg /\ IdleMain

NextBackfill ==
    \/ RunForHome
    \/ ZoneStep
    \/ ClassifierEnter
    \/ Probe
    \/ AfterClassify
    \/ BackfillDay
    \/ SecondRun

SpecBackfill == InitBackfill /\ [][NextBackfill]_vars

\* ---------------------------------------------------------------- realtime
\* Bounds: ticks collected (one more is begun), failures injected, seconds
\* one home may take.
MaxTicks == 2
MaxFailures == 1
HomeTime == 2
HomeDurations == {0, HomeTime}
RealtimeIntervals == {HomeTime + 1, 2 * HomeTime}

CurrentHome == home_ids[home_idx]
CurrentTick == Len(ticks)
CanFail == live.may_fail /\ Cardinality(failed) < MaxFailures
Failure(what, id) == <<CurrentTick, CurrentHome, what, id>>

\* The variables no step of the realtime loop writes.
rtUntouched ==
    <<start, min_gap, gaps_by_day, gap_pc, envVars, run, weather_window, fetched,
      after_run1, clsVars, dayVars, interval, main_idx, paceVars>>

\* run_loop before `loop`: the two caches, or the error of a failed query.
RunLoopSetup ==
    /\ pc = "rt_start"
    /\ \/ /\ pc' = "rt_setup_failed"
          /\ result' = "Err"
          /\ UNCHANGED <<home_db_ids, zone_maps>>
       \/ /\ home_db_ids' =
                [h \in {home_ids[i] : i \in DOMAIN home_ids} |-> HomesTable[h]]
          /\ zone_maps' =
                [h \in {home_ids[i] : i \in DOMAIN home_ids} |-> ZonesTable(HomesTable[h])]
          /\ pc' = "tick"
          /\ UNCHANGED result
    /\ UNCHANGED <<storeVars, now, zone_idx, rtUntouched, ticks, home_idx, visited,
                   failed, returned>>

\* let tick_start = Instant::now();
TickBegin ==
    /\ pc = "tick"
    /\ Len(ticks) <= MaxTicks
    /\ ticks' = Append(ticks, [tick_start |-> now, elapsed |-> None, slept |-> None])
    /\ home_idx' = 1
    /\ visited' = {}
    /\ returned' = <<>>
    /\ pc' = "home"
    /\ UNCHANGED <<storeVars, now, zone_idx, result, rtUntouched, home_db_ids,
                   zone_maps, failed>>

\* One pass of `for home_id in home_ids` up to the call of collect_home.
HomeStep ==
    /\ pc = "home"
    /\ Len(ticks) <= MaxTicks
    /\ IF home_idx > Len(home_ids)
       THEN pc' = "tick_end" /\ UNCHANGED <<home_idx, result>>
       ELSE IF CurrentHome \notin DOMAIN home_db_ids \/ CurrentHome \notin DOMAIN zone_maps
       THEN home_idx' = home_idx + 1 /\ UNCHANGED <<pc, result>>
       ELSE \/ pc' = "rt_get_zones_failed" /\ result' = "Err" /\ UNCHANGED home_idx
            \/ pc' = "weather" /\ UNCHANGED <<home_idx, result>>
    /\ UNCHANGED <<storeVars, now, zone_idx, rtUntouched, home_db_ids, zone_maps,
                   ticks, visited, failed, returned>>

\* weather.outside_temperature.timestamp, or else
\* weather.solar_intensity.timestamp, or else now_ts.
WeatherRowTs(weather, now_ts) ==
    LET outside == IF weather.outside_temperature = None THEN None
                   ELSE weather.outside_temperature[1].timestamp
        solar == IF weather.solar_intensity = None THEN None
                 ELSE weather.solar_intensity[1].timestamp
    IN  IF outside # None THEN outside[1]
        ELSE IF solar # None THEN solar[1]
        ELSE now_ts

RealtimeWeatherRow(db_home_id, weather, now_ts) ==
    [NewWeatherMeasurement(WeatherRowTs(weather, now_ts), db_home_id, REALTIME)
        EXCEPT !.outside_temp_c = IF weather.outside_temperature = None THEN None
                                  ELSE weather.outside_temperature[1].celsius,
               !.solar_intensity_pct = IF weather.solar_intensity = None THEN None
                                       ELSE weather.solar_intensity[1].percentage,
               !.weather_state = IF \/ weather.weather_state = None
                                    \/ weather.weather_state[1].value = None
                                 THEN None
                                 ELSE serde_enum_name(weather.weather_state[1].value[1])]

\* collect_home: the weather of the home.
CollectWeather ==
    /\ pc = "weather"
    /\ visited' = visited \cup {<<CurrentHome, "weather", 0>>}
    /\ \/ /\ CanFail
          /\ failed' = failed \cup {Failure("get_weather", 0)}
          /\ UNCHANGED weather_measurements
       \/ /\ CanFail
          /\ failed' = failed \cup {Failure("insert_weather", 0)}
          /\ UNCHANGED weather_measurements
       \/ /\ \E weather \in live.weather :
                weather_measurements' =
                    InsertWeatherOrSkip(weather_measurements,
                        <<RealtimeWeatherRow(home_db_ids[CurrentHome], weather, now)>>)
          /\ UNCHANGED failed
    /\ zone_idx' = 1
    /\ pc' = "zones"
    /\ UNCHANGED <<climate_measurements, now, result, rtUntouched, home_db_ids,
                   zone_maps, ticks, home_idx, returned>>

NextZoneIdxMut(i, n) == n + 1

\* Err(e) => { debug!(..); continue }: on to the next zone.
NextZoneIdx(i, n) == i + 1

\* The timestamp of one data point of an optional group of data points.
PointTs(group, field) ==
    IF group = None THEN None
    ELSE IF group[1][field] = None THEN None
    ELSE group[1][field][1].timestamp

ZoneRowTsMut(state, now_ts) ==
    LET inside == PointTs(state.sensor_data_points, "inside_temperature")
    IN  IF inside # None THEN inside[1] ELSE now_ts

\* "pick the most precise timestamp available": inside temperature, or else
\* humidity, or else heating power, or else AC power, or else now_ts.
ZoneRowTs(state, now_ts) ==
    LET inside == PointTs(state.sensor_data_points, "inside_temperature")
        hum == PointTs(state.sensor_data_points, "humidity")
        heat == PointTs(state.activity_data_points, "heating_power")
        ac == PointTs(state.activity_data_points, "ac_power")
    IN  IF inside # None THEN inside[1]
        ELSE IF hum # None THEN hum[1]
        ELSE IF heat # None THEN heat[1]
        ELSE IF ac # None THEN ac[1]
        ELSE now_ts

\* One value of one data point of an optional group of data points.
PointValue(group, field, value) ==
    IF group = None THEN None
    ELSE IF group[1][field] = None THEN None
    ELSE group[1][field][1][value]

RealtimeZoneRow(db_home_id, db_zone_id, state, now_ts) ==
    LET ac_value == PointValue(state.activity_data_points, "ac_power", "value")
    IN  [NewClimateMeasurement(ZoneRowTs(state, now_ts), db_home_id, Some(db_zone_id),
                               None, REALTIME)
            EXCEPT !.inside_temp_c =
                       PointValue(state.sensor_data_points, "inside_temperature", "celsius"),
                   !.humidity_pct =
                       PointValue(state.sensor_data_points, "humidity", "percentage"),
                   !.setpoint_temp_c =
                       IF state.setting = None THEN None ELSE state.setting[1].temperature,
                   !.heating_power_pct =
                       PointValue(state.activity_data_points, "heating_power", "percentage"),
                   !.ac_power_on =
                       IF ac_value = None THEN None ELSE Some(ac_value[1] = "On"),
                   !.ac_mode =
                       IF state.setting = None \/ state.setting[1].mode = None THEN None
                       ELSE serde_enum_name(state.setting[1].mode[1]),
                   !.window_open =
                       IF state.open_window = None THEN None ELSE Some(TRUE)]

\* collect_home: one pass of `for z in zones`.
CollectZone ==
    /\ pc = "zones"
    /\ LET zs == RemoteZones(CurrentHome)
           n == Len(zs)
       IN  IF zone_idx > n
           THEN /\ pc' = "devices"
                /\ UNCHANGED <<zone_idx, visited, failed, climate_measurements>>
           ELSE IF \/ zs[zone_idx].id = None
                   \/ zs[zone_idx].id[1] \notin DOMAIN zone_maps[CurrentHome]
           THEN /\ zone_idx' = zone_idx + 1
                /\ UNCHANGED <<pc, visited, failed, climate_measurements>>
           ELSE LET zone_id == zs[zone_idx].id[1]
                    db_zone_id == zone_maps[CurrentHome][zone_id]
                IN  /\ visited' = visited \cup {<<CurrentHome, "zone", zone_id>>}
                    /\ UNCHANGED pc
                    /\ \/ /\ CanFail
                          /\ failed' = failed \cup {Failure("get_zone_state", zone_id)}
                          /\ zone_idx' = NextZoneIdx(zone_idx, n)
                          /\ UNCHANGED climate_measurements
                       \/ /\ CanFail
                          /\ failed' = failed \cup {Failure("insert_climate", zone_id)}
                          /\ zone_idx' = zone_idx + 1
                          /\ UNCHANGED climate_measurements
                       \/ /\ \E state \in live.zone :
                                climate_measurements' =
                                    InsertClimateOrSkip(climate_measurements,
                                        <<RealtimeZoneRow(home_db_ids[CurrentHome],
                                                          db_zone_id, state, now)>>)
                          /\ zone_idx' = zone_idx + 1
                          /\ UNCHANGED failed
    /\ UNCHANGED <<weather_measurements, now, result, rtUntouched, home_db_ids,
                   zone_maps, ticks, home_idx, returned>>

\* d.connection_state.timestamp, or else Utc::now().
DeviceRowTs(d, now_ts) ==
    IF d.connection_state = None THEN now_ts
    ELSE IF d.connection_state[1].timestamp = None THEN now_ts
    ELSE d.connection_state[1].timestamp[1]

DeviceRowFields(row, d) ==
    [row EXCEPT !.battery_low = IF d.battery_state = None THEN None
                                ELSE Some(d.battery_state[1] = "Low"),
                !.connection_up = IF d.connection_state = None THEN None
                                  ELSE d.connection_state[1].value]

RealtimeDeviceRowMut(db_home_id, db_device_id, d, now_ts) ==
    DeviceRowFields(NewClimateMeasurement(DeviceRowTs(d, now_ts), db_home_id, None, None,
                                          REALTIME), d)

RealtimeDeviceRow(db_home_id, db_device_id, d, now_ts) ==
    DeviceRowFields(NewClimateMeasurement(DeviceRowTs(d, now_ts), db_home_id, None,
                                          Some(db_device_id), REALTIME), d)

\* Positions of the devices that have a serial number and a devices row.
KnownDevices(home_id, db_home_id) ==
    {i \in DOMAIN RemoteDevices(home_id) :
        /\ RemoteDevices(home_id)[i].serial_no # None
        /\ RemoteDevices(home_id)[i].serial_no[1] \in DOMAIN DevicesTable(db_home_id)}

RECURSIVE DeviceRows(_, _, _, _, _)
DeviceRows(home_id, db_home_id, S, d, now_ts) ==
    IF S = {} THEN <<>>
    ELSE LET i == SetMin(S)
         IN  <<RealtimeDeviceRow(db_home_id,
                    DevicesTable(db_home_id)[RemoteDevices(home_id)[i].serial_no[1]],
                    d, now_ts)>>
             \o DeviceRows(home_id, db_home_id, S \ {i}, d, now_ts)

\* collect_home: the devices of the home, and the return. The home took
\* some seconds of the tick.
CollectDevices ==
    /\ pc = "devices"
    /\ LET db_home_id == home_db_ids[CurrentHome]
           known == KnownDevices(CurrentHome, db_home_id)
       IN  \/ /\ CanFail
              /\ failed' = failed \cup {Failure("get_devices", 0)}
              /\ visited' = visited \cup {<<CurrentHome, "devices", 0>>}
              /\ UNCHANGED climate_measurements
           \/ \E bad \in SUBSET known :
                 /\ bad # {} => live.may_fail
                 /\ Cardinality(failed) + Cardinality(bad) <= MaxFailures
                 /\ failed' = failed \cup {Failure("insert_device", i) : i \in bad}
                 /\ visited' = visited \cup {<<CurrentHome, "devices", 0>>}
                                  \cup {<<CurrentHome, "device", i>> : i \in known}
                 /\ \E d \in live.device :
                        climate_measurements' =
                            InsertClimateOrSkip(climate_measurements,
                                DeviceRows(CurrentHome, db_home_id, known \ bad, d, now))
    /\ returned' = Append(returned, <<CurrentHome, "Ok">>)
    /\ \E d \in HomeDurations : now' = now + d
    /\ home_idx' = home_idx + 1
    /\ pc' = "home"
    /\ UNCHANGED <<weather_measurements, zone_idx, result, rtUntouched, home_db_ids,
                   zone_maps, ticks>>

SleepForMut(elapsed, interval_) ==
    IF elapsed < interval_ THEN Some(interval_) ELSE None

\* if elapsed < interval { thread::sleep(interval - elapsed) }
SleepFor(elapsed, interval_) ==
    IF elapsed < interval_ THEN Some(interval_ - elapsed) ELSE None

\* The end of a tick: the elapsed time is read and the remainder slept.
TickEnd ==
    /\ pc = "tick_end"
    /\ LET elapsed == now - ticks[CurrentTick].tick_start
           sleep == SleepFor(elapsed, interval)
       IN  /\ ticks' = [ticks EXCEPT ![CurrentTick] =
                           [tick_start |-> @.tick_start, elapsed |-> Some(elapsed),
                            slept |-> sleep]]
           /\ now' = IF sleep = None THEN now ELSE now + sleep[1]
    /\ pc' = "tick"
    /\ UNCHANGED <<storeVars, zone_idx, result, rtUntouched, home_db_ids, zone_maps,
                   home_idx, visited, failed, returned>>

InitRealtime ==
    /\ climate_measurements = {} /\ weather_measurements = {}
    /\ start = 0 /\ now = 0 /\ min_gap = DefaultMinGap
    /\ gaps_by_day = <<>> /\ gap_pc = "idle"
    /\ IdleEnv
    /\ pc = "rt_start" /\ run = 1 /\ zone_idx = 1 /\ weather_window = None
    /\ result = "Running" /\ fetched = <<>> /\ after_run1 = None
    /\ IdleCls /\ IdleDay
    /\ interval \in RealtimeIntervals
    /\ home_db_ids = <<>> /\ zone_maps = <<>>
    /\ ticks = <<>> /\ home_idx = 1 /\ visited = {} /\ failed = {} /\ returned = <<>>
    /\ IdleCfg /\ IdleMain

NextRealtime ==
    \/ RunLoopSetup
    \/ TickBegin
    \/ HomeStep
    \/ CollectWeather
    \/ CollectZone
    \/ CollectDevices
    \/ TickEnd

SpecRealtime == InitRealtime /\ [][NextRealtime]_vars

\* ------------------------------------- the realtime loop, timestamped data
\* run_loop over a vendor whose data points carry their own timestamps and
\* whose calls all succeed: one kind of answer varies, the others are idle.
TimedZoneStates ==
    {ZoneState(Some(ZoneSetting(Some(T21), Some("Heat"), Some("On"))), None,
               Some(ActivityDataPoints(Some(PercentageDataPoint(Some(30 * Scale), heat)),
                                       Some(PowerDataPoint(Some("On"), ac)))),
               Some(SensorDataPoints(Some(TemperatureDataPoint(Some(T21), inside)),
                                     Some(PercentageDataPoint(Some(55 * Scale), hum))))) :
        inside \in {None, Some(1)}, hum \in {None, Some(2)},
        heat \in {None, Some(3)}, ac \in {None, Some(4)}}
    \cup {ZoneState(None, None, None, None),
          ZoneState(None, Some(TRUE),
                    Some(ActivityDataPoints(None, Some(PowerDataPoint(None, Some(4))))),
                    Some(SensorDataPoints(None, None)))}

\* Two answers of one sensor reading: the setpoint changed, the timestamp
\* of the inside temperature did not.
SetpointChanged ==
    {ZoneState(Some(ZoneSetting(Some(setpoint), None, None)), None, None,
               Some(SensorDataPoints(Some(TemperatureDataPoint(Some(T21), Some(1))), None))) :
        setpoint \in {T21, T208}}

TimedWeathers ==
    {Weather(Some(PercentageDataPoint(Some(40 * Scale), solar)),
             Some(TemperatureDataPoint(Some(T12), outside)),
             Some([value |-> Some("Sun"), timestamp |-> Some(3)])) :
        outside \in {None, Some(1)}, solar \in {None, Some(2)}}
    \cup {Weather(None, None, None),
          Weather(Some(PercentageDataPoint(None, Some(2))), None,
                  Some([value |-> None, timestamp |-> None]))}

OutsideChanged ==
    {Weather(None, Some(TemperatureDataPoint(Some(celsius), Some(1))), None) :
        celsius \in {T12, T21}}

TimedDevices ==
    {DeviceStatus(Some([value |-> Some(TRUE), timestamp |-> ts]), Some("Low")) :
        ts \in {None, Some(1)}}
    \cup {DeviceStatus(None, None)}

ConnectionChanged ==
    {DeviceStatus(Some([value |-> Some(up), timestamp |-> Some(1)]), None) :
        up \in BOOLEAN}

LiveChoices ==
    {Live(z, {IdleWeather}, {IdleDevice}, FALSE) :
        z \in {{state} : state \in TimedZoneStates} \cup {SetpointChanged}}
    \cup {Live({IdleZoneState}, w, {IdleDevice}, FALSE) :
        w \in {{weather} : weather \in TimedWeathers} \cup {OutsideChanged}}
    \cup {Live({IdleZoneState}, {IdleWeather}, d, FALSE) :
        d \in {{device} : device \in TimedDevices} \cup {ConnectionChanged}}

InitLive ==
    /\ climate_measurements = {} /\ weather_measurements = {}
    /\ start = 0 /\ now = 0 /\ min_gap = DefaultMinGap
    /\ gaps_by_day = <<>> /\ gap_pc = "idle"
    /\ IdleEnv
    /\ pc = "rt_start" /\ run = 1 /\ zone_idx = 1 /\ weather_window = None
    /\ result = "Running" /\ fetched = <<>> /\ after_run1 = None
    /\ IdleCls /\ IdleDay
    /\ interval \in RealtimeIntervals
    /\ home_db_ids = <<>> /\ zone_maps = <<>>
    /\ ticks = <<>> /\ home_idx = 1 /\ visited = {} /\ failed = {} /\ returned = <<>>
    /\ backfill_enabled = TRUE /\ realtime_enabled = TRUE
    /\ backfill_requests_per_second = None /\ latencies = {0}
    /\ live \in LiveChoices
    /\ IdleMain

SpecLive == InitLive /\ [][NextRealtime]_vars

\* The vendor's history: genuine days, the first of them bogus or not.
MainRemotes == {[d \in HistoryDays |-> GenuineDay(d)],
                [d \in HistoryDays |-> IF d = 0 THEN BogusDay(d) ELSE GenuineDay(d)]}

\* ------------------------------------------------- the scheduler's pacing
\* One run_for_home over two zones with and without a rate ceiling; the
\* vendor answers within one of the Latencies, milliseconds.
Latencies == {200, 700}
RateCeilings == {None, Some(1), Some(2)}

InitPacing ==
    /\ climate_measurements = {} /\ weather_measurements = {}
    /\ start = 0 /\ now = BackfillDays * DayTicks
    /\ min_gap = DefaultMinGap
    /\ gaps_by_day = <<>> /\ gap_pc = "idle"
    /\ cfg = Config(None, None)
    /\ zones = <<Zone(Some(ZoneA), Some(0)), Zone(Some(ZoneB), Some(DayTicks))>>
    /\ remote \in MainRemotes
    /\ backfill_enabled = TRUE /\ realtime_enabled = TRUE
    /\ backfill_requests_per_second \in RateCeilings
    /\ latencies = Latencies /\ live = IdleLive
    /\ pc = "run_start" /\ run = 1 /\ zone_idx = 1 /\ weather_window = None
    /\ result = "Running" /\ fetched = <<>> /\ after_run1 = None
    /\ IdleCls /\ IdleDay
    /\ IdleRt
    /\ IdleMain

NextPacing ==
    \/ RunForHome
    \/ ZoneStep
    \/ ClassifierEnter
    \/ Probe
    \/ AfterClassify
    \/ BackfillDay

SpecPacing == InitPacing /\ [][NextPacing]_vars

\* ------------------------------------------------------ the inserts, alone
\* ingest::insert_climate_measurements and insert_weather_measurements,
\* called with any batch of up to MaxBatch rows of one instant; rows and
\* weather_by_ts hold the batch of the last call.
MaxBatch == 1

IngestClimateRows ==
    {[NewClimateMeasurement(0, DbHomeId, Some(ZoneA), None, HISTORICAL)
        EXCEPT !.inside_temp_c = Some(T21)],
     [NewClimateMeasurement(0, DbHomeId, Some(ZoneA), None, HISTORICAL)
        EXCEPT !.inside_temp_c = Some(T208)],
     RealtimeZoneRow(DbHomeId, ZoneA, IdleZoneState, 0),
     RealtimeDeviceRow(DbHomeId, 7, IdleDevice, 0)}

IngestWeatherRows ==
    {[NewWeatherMeasurement(0, DbHomeId, HISTORICAL) EXCEPT !.outside_temp_c = Some(T12)],
     [NewWeatherMeasurement(0, DbHomeId, HISTORICAL) EXCEPT !.outside_temp_c = Some(T21)],
     RealtimeWeatherRow(DbHomeId, IdleWeather, 0)}

ingestUntouched ==
    <<gapVars, envVars, pc, run, zone_idx, weather_window, fetched, after_run1,
      clsVars, first_day, pending, by_ts, rtVars, main_idx, paceVars>>

insert_climate_measurements ==
    /\ pc = "ingest"
    /\ \E batch \in SeqsUpTo(IngestClimateRows, MaxBatch) :
          /\ rows' = batch
          /\ \/ /\ climate_measurements' =
                      InsertClimateOrSkip(climate_measurements, batch)
                /\ result' = "Ok"
             \/ /\ batch # <<>>
                /\ result' = "Err"
                /\ UNCHANGED climate_measurements
    /\ weather_by_ts' = <<>>
    /\ UNCHANGED <<weather_measurements, ingestUntouched>>

insert_weather_measurements ==
    /\ pc = "ingest"
    /\ \E batch \in SeqsUpTo(IngestWeatherRows, MaxBatch) :
          /\ weather_by_ts' = batch
          /\ \/ /\ weather_measurements' =
                      InsertWeatherOrSkip(weather_measurements, batch)
                /\ result' = "Ok"
             \/ /\ batch # <<>>
                /\ result' = "Err"
                /\ UNCHANGED weather_measurements
    /\ rows' = <<>>
    /\ UNCHANGED <<climate_measurements, ingestUntouched>>

InitIngest ==
    /\ climate_measurements = {} /\ weather_measurements = {}
    /\ start = 0 /\ now = 0 /\ min_gap = DefaultMinGap
    /\ gaps_by_day = <<>> /\ gap_pc = "idle"
    /\ IdleEnv
    /\ pc = "ingest" /\ run = 1 /\ zone_idx = 1 /\ weather_window = None
    /\ result = "Running" /\ fetched = <<>> /\ after_run1 = None
    /\ IdleCls /\ IdleDay
    /\ IdleRt
    /\ IdleCfg /\ IdleMain

NextIngest == insert_climate_measurements \/ insert_weather_measurements

SpecIngest == InitIngest /\ [][NextIngest]_vars

\* ------------------------------------------------------------------- run
\* run of main.rs from step 7 on: the backfill of every home, then the
\* realtime loop.

\* What get_zones answers while the backfill runs: the zones the reference
\* sync stored at startup; home 102's zone was created after it.
StartupZones(home_id) ==
    SelectSeq(RemoteZones(home_id),
              LAMBDA z : z.id = None
                         \/ z.id[1] \in DOMAIN ZonesTable(HomesTable[home_id]))

HasNextHomeMut(i, n) == i <= 1

\* `for home_id in &target_homes` has another home to backfill.
HasNextHome(i, n) == i <= n

runUntouched ==
    <<storeVars, gapVars, cfg, remote, cfgVars, run, zone_idx, weather_window,
      fetched, after_run1, clsVars, dayVars, rtVars, paceVars>>

\* Step 7: the next call of backfill::run_for_home, or the end of the step.
MainBackfill ==
    /\ pc = "main"
    /\ IF backfill_enabled /\ HasNextHome(main_idx, Len(home_ids))
       THEN /\ pc' = "run_start"
            /\ zones' = StartupZones(home_ids[main_idx])
       ELSE /\ pc' = "main_realtime"
            /\ UNCHANGED zones
    /\ UNCHANGED <<result, main_idx, runUntouched>>

\* run_for_home returned Ok: the loop goes on (an Err leaves run by `?`).
MainBackfillReturned ==
    /\ pc = "run_done"
    /\ main_idx' = main_idx + 1
    /\ pc' = "main"
    /\ UNCHANGED <<result, zones, runUntouched>>

\* Step 8: realtime::run_loop, or Ok(()) when the loop is disabled.
MainRealtime ==
    /\ pc = "main_realtime"
    /\ IF realtime_enabled
       THEN pc' = "rt_start" /\ result' = "Running"
       ELSE pc' = "main_done" /\ result' = "Ok"
    /\ UNCHANGED <<zones, main_idx, runUntouched>>

\* The startup with either flag set or not; the vendor answers every call
\* of the realtime loop (its failures are SpecRealtime's).
InitMain ==
    /\ climate_measurements = {} /\ weather_measurements = {}
    /\ start = 0 /\ now = BackfillDays * DayTicks
    /\ min_gap = DefaultMinGap
    /\ gaps_by_day = <<>> /\ gap_pc = "idle"
    /\ cfg = Config(None, None)
    /\ zones = <<>>
    /\ remote = [d \in HistoryDays |-> IF d = 0 THEN BogusDay(d) ELSE GenuineDay(d)]
    /\ backfill_enabled \in BOOLEAN
    /\ realtime_enabled \in BOOLEAN
    /\ backfill_requests_per_second = None /\ latencies = {0}
    /\ live = Live({IdleZoneState}, {IdleWeather}, {IdleDevice}, FALSE)
    /\ pc = "main" /\ run = 1 /\ zone_idx = 1 /\ weather_window = None
    /\ result = "Running" /\ fetched = <<>> /\ after_run1 = None
    /\ IdleCls /\ IdleDay
    /\ IdleRt
    /\ IdleMain

NextMain ==
    \/ MainBackfill
    \/ RunForHome
    \/ ZoneStep
    \/ ClassifierEnter
    \/ Probe
    \/ AfterClassify
    \/ BackfillDay
    \/ MainBackfillReturned
    \/ MainRealtime
    \/ RunLoopSetup
    \/ TickBegin
    \/ HomeStep
    \/ CollectWeather
    \/ CollectZone
    \/ CollectDevices
    \/ TickEnd

SpecMain == InitMain /\ [][NextMain]_vars

\* ------------------------------------------- gap detector: properties
\* The timestamps T the zone has stored inside the window [start, now).
StoredTimes ==
    {r.time : r \in ZoneRowsInWindow(climate_measurements, DbHomeId, ZoneA, start, now)}

\* Every reported gap, named by its day and its position in the day's list.
GapIds == {<<d, i>> : d \in DOMAIN gaps_by_day, i \in 1..MaxGrid + 2} \cap
          UNION {{<<d, i>> : i \in 1..Len(gaps_by_day[d])} : d \in DOMAIN gaps_by_day}
GapOf(id) == gaps_by_day[id[1]][id[2]]

GapsHolding(x) == {id \in GapIds : GapHoldsTs(x, GapOf(id))}

\* Every interval bound the detector can produce is a window bound, a
\* midnight or a stored timestamp; an instant of the window is equivalent,
\* for membership in T and in the gaps, to one of these or a neighbour.
Bounds ==
    {start, now} \cup {DayStart(d) : d \in 0..date_naive(now) + 1}
    \cup {r.time : r \in climate_measurements}
    \cup {GapOf(id).start : id \in GapIds} \cup {GapOf(id).end : id \in GapIds}
Instants ==
    {x \in Bounds \cup {b + 1 : b \in Bounds} \cup {b - 1 : b \in Bounds} :
        start <= x /\ x < now}

\* The hole around an instant x outside T: from the nearest bound below
\* (the day's midnight, the window start or a stored timestamp) to the
\* nearest bound above (a stored timestamp, the next midnight or now).
HoleLo(x) == SetMax({Max(start, DayStart(date_naive(x)))} \cup {t \in StoredTimes : t < x})
HoleHi(x) == SetMin({Min(now, DayStart(date_naive(x) + 1))} \cup {t \in StoredTimes : t > x})
HoleLen(x) == HoleHi(x) - HoleLo(x)

\* C1 (as claimed): the reported gaps together with T exactly cover
\* [start, now): every instant of the window is a timestamp of T and in no
\* gap, or outside T and in exactly one gap.
C1_ExactCover ==
    gap_pc = "done" =>
        \A x \in Instants :
            IF x \in StoredTimes
            THEN GapsHolding(x) = {}
            ELSE Cardinality(GapsHolding(x)) = 1

\* C1 (amended): the reported gaps are pairwise disjoint, lie inside
\* [start, now), hold no timestamp of T, and cover exactly the instants
\* outside T whose hole is at least min_gap long; an instant in a shorter
\* hole is covered neither by T nor by a gap.
C1_CoverUpToMinGap ==
    gap_pc = "done" =>
        /\ \A x \in Instants :
            IF x \in StoredTimes
            THEN GapsHolding(x) = {}
            ELSE /\ Cardinality(GapsHolding(x)) <= 1
                 /\ (GapsHolding(x) # {}) <=> (HoleLen(x) >= min_gap)
        /\ \A id \in GapIds :
            /\ start <= GapOf(id).start
            /\ GapOf(id).end <= now
            /\ date_naive(GapOf(id).start) = id[1]
            /\ GapOf(id).end <= DayStart(id[1] + 1)

C1_Witness ==
    /\ gap_pc = "done"
    /\ StoredTimes # {}
    /\ GapIds # {}
    /\ \E x \in Instants : x \notin StoredTimes /\ GapsHolding(x) = {}
    /\ \E x \in Instants : x \notin StoredTimes /\ GapsHolding(x) # {}

\* C2: every reported gap (leading, interior, trailing or full-day) lasts
\* at least min_gap, and a day appears in the map only with at least one
\* such gap: a day whose holes are all shorter has no entry.
C2_MinGapDuration ==
    gap_pc = "done" =>
        /\ \A id \in GapIds : GapOf(id).end - GapOf(id).start >= min_gap
        /\ \A d \in DOMAIN gaps_by_day :
            /\ Len(gaps_by_day[d]) >= 1
            /\ \E x \in Instants :
                 /\ date_naive(x) = d
                 /\ x \notin StoredTimes
                 /\ HoleLen(x) >= min_gap

C2_Witness ==
    /\ gap_pc = "done"
    /\ \E d \in date_naive(start)..date_naive(now) :
         /\ d \notin DOMAIN gaps_by_day
         /\ \E x \in Instants : date_naive(x) = d /\ x \notin StoredTimes
    /\ \E id \in GapIds : GapOf(id).end - GapOf(id).start = min_gap
    /\ \E id \in GapIds : ~GapOf(id).start_inclusive

\* The 15-minute scenario: samples 00:00..10:00 and 18:00..23:45.
ScenarioInput ==
    /\ climate_measurements = ScenarioStore
    /\ start = 0
    /\ now = DayTicks
    /\ min_gap = DefaultMinGap

\* C3: two consecutive stored timestamps p < q of one day with
\* q - p >= min_gap give the gap (p, q) with an exclusive start; the gap
\* before the day's first timestamp has an inclusive start; so no stored
\* timestamp of the zone is a member of a reported gap. The scenario
\* yields exactly the one gap (10:00, 18:00), exclusive-start.
C3_ExclusiveInterior ==
    gap_pc = "done" =>
        /\ \A p \in StoredTimes, q \in StoredTimes :
            (/\ p < q
             /\ date_naive(p) = date_naive(q)
             /\ ~\E t \in StoredTimes : p < t /\ t < q
             /\ q - p >= min_gap)
            => \E id \in GapIds : GapOf(id) = Gap(p, q, FALSE)
        /\ \A id \in GapIds :
            GapOf(id).start_inclusive <=> (GapOf(id).start \notin StoredTimes)
        /\ \A q \in StoredTimes :
            LET lo == Max(start, DayStart(date_naive(q)))
            IN  (/\ ~\E t \in StoredTimes : lo <= t /\ t < q
                 /\ q - lo >= min_gap)
                => \E id \in GapIds : GapOf(id) = Gap(lo, q, TRUE)
        /\ \A r \in climate_measurements :
            (r.home_id = DbHomeId /\ r.zone_id = Some(ZoneA))
            => \A d \in DOMAIN gaps_by_day : ~timestamp_in_any_gap(r.time, gaps_by_day[d])
        /\ ScenarioInput =>
            gaps_by_day = (0 :> <<Gap(10 * 3600, 18 * 3600, FALSE)>>)

C3_Witness ==
    /\ gap_pc = "done"
    /\ ScenarioInput
    /\ GapIds # {}

\* ---------------------------------------------- classifier: properties
IsBogusDay(d) == is_day_report_bogus(remote[d])

\* Days cls_start + i with i < k are bogus, the later days of the span are not.
MonotoneAt(k) ==
    \A d \in cls_start..cls_end : IsBogusDay(d) <=> (d - cls_start < k)

\* C4: when the search over the span cls_start..cls_end has returned and
\* the days with index < k are bogus and those with index >= k are not
\* (0 <= k <= cls_end - cls_start), the day returned is cls_start + k.
C4_FirstNonBogusDay ==
    (pc = "classified" /\ cls_start <= cls_end) =>
        \A k \in 0..(cls_end - cls_start) :
            MonotoneAt(k) => candidate = Some(cls_start + k)

C4_Witness ==
    /\ pc = "classified"
    /\ cls_end - cls_start >= 3
    /\ MonotoneAt(2)
    /\ candidate = Some(cls_start + 2)
    /\ Len(fetched) >= 2

\* ---------------------------------------------- reconciler: properties
\* The day loop has merged and stored the one day of the reconciler's run.
DayMerged == pc = "zone_loop" /\ pending = <<>> /\ fetched # <<>>

\* A row that carries the sentinel pair and nothing else; equality of f64
\* values is approx_eq's, as everywhere in the engine.
PurelySentinel(r) ==
    /\ r.inside_temp_c # None /\ r.humidity_pct # None
    /\ Abs(r.inside_temp_c[1] - 20 * Scale) <= FLOAT_EPSILON
    /\ Abs(r.humidity_pct[1] - 50 * Scale) <= FLOAT_EPSILON
    /\ \A f \in {"setpoint_temp_c", "heating_power_pct", "ac_power_on", "ac_mode",
                 "window_open", "battery_low", "connection_up"} : r[f] = None

SentinelPrefixLen(seq) ==
    CHOOSE k \in 0..Len(seq) :
        /\ \A i \in 1..k : PurelySentinel(seq[i])
        /\ k = Len(seq) \/ ~PurelySentinel(seq[k + 1])

AscendingByTime(seq) ==
    \A i, j \in DOMAIN seq : i < j => seq[i].time < seq[j].time

\* C6: of a day's merged rows, in ascending timestamp order, the rows
\* emitted are those after the maximal prefix of purely sentinel rows: the
\* first non-sentinel row and all rows after it stay, later sentinel rows
\* included, and a day of sentinel rows only emits nothing.
C6_LeadingBogusStripped ==
    /\ AscendingByTime(by_ts)
    /\ rows = SubSeq(by_ts, SentinelPrefixLen(by_ts) + 1, Len(by_ts))
    /\ (\A i \in DOMAIN by_ts : PurelySentinel(by_ts[i])) => rows = <<>>

C6_Witness ==
    /\ DayMerged
    /\ Len(by_ts) = 3
    /\ PurelySentinel(by_ts[1])
    /\ ~PurelySentinel(by_ts[2])
    /\ PurelySentinel(by_ts[3])
    /\ Len(rows) = 2

MeasurementFields ==
    {"inside_temp_c", "humidity_pct", "setpoint_temp_c", "heating_power_pct",
     "ac_power_on", "ac_mode", "window_open", "battery_low", "connection_up"}

Populated(r) == \E f \in MeasurementFields : r[f] # None

\* C7: every climate row the day loop emits for a day, and every row it
\* inserts, has at least one populated measurement field.
C7_EveryRowPopulated ==
    /\ \A i \in DOMAIN rows : Populated(rows[i])
    /\ \A r \in climate_measurements : Populated(r)

RowsAt(seq, ts) == {i \in DOMAIN seq : seq[i].time = ts}

\* The day the day loop fetched last, its report and its gaps.
MergedDay == fetched[Len(fetched)][2]
MergedReport == remote[MergedDay]
MergedGaps == gaps_by_day[MergedDay]

\* Positions of the usable entries of a series at the instant ts.
TempsAt(ts) ==
    {i \in DOMAIN MergedReport.inside_temperature :
        /\ MergedReport.inside_temperature[i].timestamp = Some(ts)
        /\ MergedReport.inside_temperature[i].celsius # None}
HumiditiesAt(ts) ==
    {i \in DOMAIN MergedReport.humidity :
        /\ MergedReport.humidity[i].timestamp = Some(ts)
        /\ MergedReport.humidity[i].value # None}
AcActivitiesAt(ts) ==
    {i \in DOMAIN MergedReport.ac_activity :
        /\ MergedReport.ac_activity[i].from = Some(ts)
        /\ MergedReport.ac_activity[i].value # None}
PowerSettingsAt(ts) ==
    {i \in DOMAIN MergedReport.settings :
        /\ MergedReport.settings[i].from = Some(ts)
        /\ MergedReport.settings[i].value # None
        /\ MergedReport.settings[i].value[1].power # None}

SlotInstants == {SlotTs(MergedDay, k) : k \in 1..SlotsPerDay}

\* C8: the merged rows of a day have pairwise different timestamps; a
\* temperature point and a humidity point of one instant in a gap are one
\* row carrying both; and the value of a field is that of the last entry
\* for it at the instant (the later temperature point; the settings'
\* power after the AC activity).
C8_OneRowPerTimestamp ==
    /\ \A i, j \in DOMAIN by_ts : i # j => by_ts[i].time # by_ts[j].time
    /\ \A i, j \in DOMAIN rows : i # j => rows[i].time # rows[j].time
    /\ DayMerged =>
        \A ts \in SlotInstants :
            timestamp_in_any_gap(ts, MergedGaps) =>
                /\ (TempsAt(ts) # {} /\ HumiditiesAt(ts) # {}) =>
                      /\ Cardinality(RowsAt(by_ts, ts)) = 1
                      /\ \A i \in RowsAt(by_ts, ts) :
                            by_ts[i].inside_temp_c # None /\ by_ts[i].humidity_pct # None
                /\ TempsAt(ts) # {} =>
                      \A i \in RowsAt(by_ts, ts) :
                          by_ts[i].inside_temp_c =
                              MergedReport.inside_temperature[SetMax(TempsAt(ts))].celsius
                /\ PowerSettingsAt(ts) # {} =>
                      \A i \in RowsAt(by_ts, ts) :
                          by_ts[i].ac_power_on =
                              Some(MergedReport.settings[SetMax(PowerSettingsAt(ts))]
                                       .value[1].power[1] = "On")
                /\ (PowerSettingsAt(ts) = {} /\ AcActivitiesAt(ts) # {}) =>
                      \A i \in RowsAt(by_ts, ts) :
                          by_ts[i].ac_power_on =
                              Some(MergedReport.ac_activity[SetMax(AcActivitiesAt(ts))]
                                       .value[1] = "On")

C8_Witness ==
    /\ DayMerged
    /\ \E ts \in SlotInstants :
          /\ Cardinality(TempsAt(ts)) = 2
          /\ \E i \in RowsAt(by_ts, ts) : by_ts[i].inside_temp_c = Some(T208)
    /\ \E ts \in SlotInstants :
          /\ TempsAt(ts) # {} /\ HumiditiesAt(ts) # {}
          /\ \E i \in RowsAt(by_ts, ts) :
                by_ts[i].inside_temp_c # None /\ by_ts[i].humidity_pct # None
    /\ \E ts \in SlotInstants :
          /\ AcActivitiesAt(ts) # {} /\ PowerSettingsAt(ts) # {}
          /\ \E i \in RowsAt(by_ts, ts) : by_ts[i].ac_power_on = Some(FALSE)

\* --------------------------------------------------- scheduler: properties
\* C5: when the second of two successive runs over the same remote, the
\* same configuration and the store the first run left has returned, the
\* store holds the rows it held when the first run returned: the second
\* run has inserted no climate and no weather row.
C5_SecondRunInsertsNothing ==
    (run = 2 /\ pc = "run_done") =>
        after_run1 = Some([climate |-> climate_measurements,
                           weather |-> weather_measurements])

\* ---------------------------------------------------- realtime: properties
\* C9: a tick whose collection took less than the interval is followed by
\* a sleep of exactly interval - elapsed, a tick that took the interval or
\* more by no sleep; only the newest tick is unfinished, so one tick
\* follows each tick; and the next tick starts max(interval, elapsed)
\* after the start of the tick before it.
C9_SteadyCadence ==
    \A i \in DOMAIN ticks :
        IF ticks[i].elapsed = None
        THEN i = Len(ticks) /\ ticks[i].slept = None
        ELSE LET e == ticks[i].elapsed[1]
                 next_start == IF i < Len(ticks) THEN ticks[i + 1].tick_start ELSE now
             IN  /\ e < interval => ticks[i].slept = Some(interval - e)
                 /\ e >= interval => ticks[i].slept = None
                 /\ i = Len(ticks) => pc = "tick"
                 /\ next_start - ticks[i].tick_start = Max(interval, e)

C9_Witness ==
    /\ Len(ticks) = 3
    /\ \E i, j \in 1..2 :
          /\ ticks[i].elapsed[1] > interval /\ ticks[i].slept = None
          /\ ticks[i + 1].tick_start = ticks[i].tick_start + ticks[i].elapsed[1]
          /\ ticks[j].elapsed[1] < interval /\ ticks[j].slept # None
          /\ ticks[j + 1].tick_start = ticks[j].tick_start + interval

\* The fetches collect_home makes for a home whatever fails: the weather,
\* the state of every zone with an id the zones table knows, the devices.
ExpectedVisits(h) ==
    {<<h, "weather", 0>>, <<h, "devices", 0>>} \cup
    {<<h, "zone", RemoteZones(h)[i].id[1]>> :
        i \in {k \in DOMAIN RemoteZones(h) :
                 /\ RemoteZones(h)[k].id # None
                 /\ RemoteZones(h)[k].id[1] \in DOMAIN ZonesTable(HomesTable[h])}}

ExpectedDeviceVisits(h) ==
    {<<h, "device", i>> : i \in KnownDevices(h, HomesTable[h])}

\* C10: whatever fetch or insert failed in it, a call of collect_home has
\* returned Ok after visiting the weather, every zone and the devices of
\* its home (every device, unless the device list itself could not be
\* fetched); the home loop has gone on to the next home, and a tick that
\* reaches its end has collected every home. The loop stops only for
\* a failed cache query or a failed get_zones, never for collect_home.
C10_FailuresSkipped ==
    /\ \A i \in DOMAIN returned :
          /\ returned[i] = <<home_ids[i], "Ok">>
          /\ ExpectedVisits(home_ids[i]) \subseteq visited
          /\ <<CurrentTick, home_ids[i], "get_devices", 0>> \notin failed =>
                ExpectedDeviceVisits(home_ids[i]) \subseteq visited
    /\ pc = "home" => Len(returned) = home_idx - 1
    /\ pc = "tick_end" => Len(returned) = Len(home_ids)
    /\ result = "Err" => pc \in {"rt_setup_failed", "rt_get_zones_failed"}

C10_Witness ==
    /\ pc = "tick_end"
    /\ <<CurrentTick, 101, "get_zone_state", 1>> \in failed
    /\ <<101, "zone", 2>> \in visited
    /\ <<101, "device", 1>> \in visited
    /\ <<102, "weather", 0>> \in visited
    /\ Len(returned) = 2

\* C11: once run_loop has entered its tick loop it does not return,
\* whichever remote call of a tick fails.
C11_LoopNeverReturns ==
    ticks # <<>> => (result # "Err" /\ pc \notin {"rt_setup_failed", "rt_get_zones_failed"})

\* C12: a failed day-report fetch (a probe of the search or a fetch of
\* the day loop) ends the run with the error: the failing step writes no
\* row and keeps the rows stored before it, and once the error is returned
\* nothing is fetched or written any more, the failed day included.
C12_FailFast ==
    [][/\ result # "Err"
       /\ (result' = "Err" /\ pc \in {"probe", "day_loop"} /\ pc' # "store_failed") =>
             /\ pc' = "run_failed"
             /\ Len(fetched') = Len(fetched) + 1
             /\ UNCHANGED storeVars]_vars

C12_Witness ==
    /\ pc = "run_failed"
    /\ result = "Err"
    /\ pending # <<>>
    /\ rows # <<>>
    /\ \E r \in climate_measurements : r.source = HISTORICAL /\ r.time = rows[1].time

\* The backfill of every configured home has returned.
BackfillOfEveryHomeReturned ==
    backfill_enabled => main_idx > Len(home_ids)

RowsOfSource(source) ==
    {r \in climate_measurements \cup weather_measurements : r.source = source}

RealtimePcs == {"rt_start", "tick", "home", "weather", "zones", "devices", "tick_end"}

\* C13: no step of the realtime loop (a fetch it attempts, a tick it
\* begins, a realtime row it inserts) is taken before the backfill of every
\* configured home has returned, and no historical row is written once the
\* loop has been entered.
C13_BackfillPrecedesPolling ==
    [][/\ (pc \in RealtimePcs
           \/ visited' # visited \/ ticks' # ticks
           \/ RowsOfSource(REALTIME)' # RowsOfSource(REALTIME))
              => BackfillOfEveryHomeReturned
       /\ (home_db_ids # <<>> \/ ticks # <<>>)
              => RowsOfSource(HISTORICAL)' = RowsOfSource(HISTORICAL)]_vars

C13_Witness ==
    /\ backfill_enabled
    /\ RowsOfSource(HISTORICAL) # {}
    /\ \E r \in RowsOfSource(REALTIME) :
          \A h \in RowsOfSource(HISTORICAL) : h.time < r.time
    /\ Len(ticks) >= 2

\* ------------------------------------------ bogus-day predicate: properties
\* The one day of the span has been probed and classified.
DayClassified == pc = "classified" /\ fetched # <<>>
ClassifiedBogus == DayClassified /\ candidate = None

Distance(a, b) == IF a >= b THEN a - b ELSE b - a

\* Some temperature point is off 20.0, or some humidity point off 0.5, by
\* more than 1e-6.
GenuineIndoorDeviation(report) ==
    \/ \E i \in 1..Len(report.inside_temperature) :
          LET c == report.inside_temperature[i].celsius
          IN  c # None /\ Distance(c[1], 20 * Scale) > Scale \div 1000000
    \/ \E i \in 1..Len(report.humidity) :
          LET v == report.humidity[i].value
          IN  v # None /\ Distance(v[1], Scale \div 2) > Scale \div 1000000

\* Some weather interval carries a state or a temperature, or some weather
\* slot is filled.
OutdoorSignal(report) ==
    \/ \E i \in 1..Len(report.weather_condition) :
          LET v == report.weather_condition[i].value
          IN  v # None /\ (v[1].state # None \/ v[1].temperature # None)
    \/ \E i \in 1..Len(report.weather_slots) : report.weather_slots[i] # None

\* The fixture's shape: indoor points, every one of them the sentinel, and
\* weather intervals, none of them with a state or a temperature.
FixtureShape(report) ==
    /\ ~GenuineIndoorDeviation(report)
    /\ \E i \in 1..Len(report.inside_temperature) :
          report.inside_temperature[i].celsius # None
    /\ \E i \in 1..Len(report.humidity) : report.humidity[i].value # None
    /\ report.weather_condition # <<>>
    /\ ~OutdoorSignal(report)

\* C14: a report with a genuine indoor deviation is classified non-bogus,
\* whatever its weather part holds.
C14_IndoorDeviationNonBogus ==
    \A d \in DOMAIN remote :
        GenuineIndoorDeviation(remote[d]) =>
            /\ ~is_day_report_bogus(remote[d])
            /\ (DayClassified /\ d = cls_start) => candidate = Some(d)

C14_Witness ==
    /\ DayClassified
    /\ GenuineIndoorDeviation(remote[0])
    /\ remote[0].weather_condition # <<>>
    /\ ~OutdoorSignal(remote[0])
    /\ candidate = Some(0)

\* C15: a report is classified bogus only if it has no genuine indoor
\* deviation and no weather interval with a state or a temperature; a
\* report of the fixture's shape is classified bogus.
C15_BogusOnlyWithoutEvidence ==
    /\ ClassifiedBogus =>
          ~GenuineIndoorDeviation(remote[0]) /\ ~OutdoorSignal(remote[0])
    /\ (DayClassified /\ FixtureShape(remote[0])) => candidate = None

C15_Witness ==
    /\ ClassifiedBogus
    /\ FixtureShape(remote[0])
    /\ Len(remote[0].inside_temperature) = 2
    /\ \E i \in 1..Len(remote[0].weather_condition) :
          remote[0].weather_condition[i].value # None

\* ------------------------------------------------------ store: properties
OnePerKey(store, Key(_)) ==
    \A r, q \in store : Key(r) = Key(q) => r = q

GrowsByNewKeys(old, new, Key(_)) ==
    /\ old \subseteq new
    /\ \A r \in new \ old : \A q \in old : Key(q) # Key(r)

\* C16: every step leaves each stored row as it was, adds only rows whose
\* natural key was not stored, and keeps at most one row per key.
C16_InsertOrSkip ==
    [][/\ GrowsByNewKeys(climate_measurements, climate_measurements', ClimateKey)
       /\ GrowsByNewKeys(weather_measurements, weather_measurements', WeatherKey)
       /\ OnePerKey(climate_measurements', ClimateKey)
       /\ OnePerKey(weather_measurements', WeatherKey)]_vars

\* A batch was inserted that held a row whose key was stored with another
\* reading; the store holds rows of both sources and weather rows.
C16_Witness ==
    /\ result = "Ok"
    /\ \E i \in 1..Len(rows) : \E q \in climate_measurements :
          ClimateKey(q) = ClimateKey(rows[i]) /\ q # rows[i]
    /\ \E r, q \in climate_measurements : r.source # q.source
    /\ weather_measurements # {}

\* C17: every climate row stored has exactly one of zone_id and device_id:
\* a historical row has a zone and no device, a realtime row has one of
\* the two and not the other.
C17_ZoneXorDevice ==
    \A r \in climate_measurements :
        /\ (r.zone_id = None) # (r.device_id = None)
        /\ r.source = HISTORICAL => (r.zone_id # None /\ r.device_id = None)

C17_Witness ==
    /\ \E r \in climate_measurements :
          r.source = HISTORICAL /\ r.zone_id # None /\ r.device_id = None
    /\ \E r \in climate_measurements :
          r.source = REALTIME /\ r.zone_id # None /\ r.device_id = None
    /\ \E r \in climate_measurements :
          r.source = REALTIME /\ r.zone_id = None /\ r.device_id # None

\* ------------------------------------------------- scheduler: properties
BackfillingZone == pc \in {"cls_call", "probe", "classified", "day_loop"}

\* C18: with a floor date configured, the start of the zone being
\* backfilled is the later of its creation instant and the floor's
\* midnight, no day report was requested for a date before the floor, and
\* no historical row stored is earlier than the floor's midnight.
C18_FloorDate ==
    cfg.backfill_from_date # None =>
        LET floor == cfg.backfill_from_date[1]
        IN  /\ BackfillingZone =>
                  start = Max(CurrentZone.date_created[1], floor * DayTicks)
            /\ \A i \in 1..Len(fetched) : fetched[i][2] >= floor
            /\ \A r \in RowsOfSource(HISTORICAL) : r.time >= floor * DayTicks

C18_Witness ==
    /\ cfg.backfill_from_date = Some(1)
    /\ zones[Len(zones)].date_created = Some(0)
    /\ ~is_day_report_bogus(remote[0])
    /\ pc = "run_done" /\ run = 1
    /\ Len(fetched) >= 2
    /\ RowsOfSource(HISTORICAL) \cap climate_measurements # {}
    /\ RowsOfSource(HISTORICAL) \cap weather_measurements # {}

\* C19: with a ceiling of R requests per second, the starts of two
\* consecutive day-report fetches, probes and day fetches alike, are at
\* least 1/R seconds apart; with no ceiling no fetch sleeps.
C19_RateCeiling ==
    /\ backfill_requests_per_second # None =>
          \A i \in 2..Len(fetch_times) :
              (fetch_times[i].start - fetch_times[i - 1].start)
                  * backfill_requests_per_second[1] >= MsPerSecond
    /\ backfill_requests_per_second = None =>
          \A i \in 1..Len(fetch_times) : fetch_times[i].slept = 0

C19_Witness ==
    /\ backfill_requests_per_second = Some(2)
    /\ Len(fetch_times) >= 4
    /\ \E i \in 1..Len(fetch_times) : fetch_times[i].slept > 0
    /\ \E i \in 1..Len(fetch_times) : fetch_times[i].slept = 0
    /\ first_day # None
    /\ pc = "run_failed"

\* A gap day the day loop of the zone has to fetch: not before first_day
\* and, with a sample rate, first_day itself or a day whose day of the year
\* is a multiple of the rate.
SampledDay(d) ==
    /\ d \in DOMAIN gaps_by_day
    /\ gaps_by_day[d] # <<>>
    /\ d >= first_day[1]
    /\ \/ cfg.backfill_sample_rate = None
       \/ d = first_day[1]
       \/ ordinal(d) % cfg.backfill_sample_rate[1] = 0

\* C20: every day the day loop fetches is a sampled day, and the rows the
\* step stores are of that day; when the loop ends, every sampled day was
\* fetched by it.
C20_Decimation ==
    [][pc = "day_loop" =>
          /\ Len(fetched') > Len(fetched) =>
                LET d == fetched'[Len(fetched')][2]
                IN  /\ SampledDay(d)
                    /\ \A r \in (climate_measurements' \ climate_measurements)
                                \cup (weather_measurements' \ weather_measurements) :
                           date_naive(r.time) = d
          /\ pc' = "zone_loop" =>
                \A d \in DOMAIN gaps_by_day :
                    SampledDay(d) =>
                        \E i \in 1..Len(fetched') :
                            fetched'[i] = <<CurrentZone.id[1], d, "day_loop">>]_vars

C20_Witness ==
    /\ cfg.backfill_sample_rate = Some(2)
    /\ pc = "run_done" /\ run = 1
    /\ first_day = Some(0)
    /\ 2 \in DOMAIN gaps_by_day /\ gaps_by_day[2] # <<>>
    /\ \A d \in {0, 1} : \E i \in 1..Len(fetched) : fetched[i] = <<ZoneA, d, "day_loop">>
    /\ ~\E i \in 1..Len(fetched) : fetched[i] = <<ZoneA, 2, "day_loop">>
    /\ ~\E r \in RowsOfSource(HISTORICAL) : date_naive(r.time) = 2
    /\ \E r \in RowsOfSource(HISTORICAL) : date_naive(r.time) = 1

\* Positions in a log of fetches of those the day loop made.
LoopFetches(log) == {i \in 1..Len(log) : log[i][3] = "day_loop"}

\* C21: the days the day loop has fetched have gaps, are not before
\* first_day and were fetched in strictly ascending order; a step of the
\* loop stores no row of a day before first_day.
C21_FromFirstDayAscending ==
    [][pc = "day_loop" =>
          /\ \A i \in LoopFetches(fetched') :
                LET d == fetched'[i][2]
                IN  /\ d \in DOMAIN gaps_by_day /\ gaps_by_day[d] # <<>>
                    /\ d >= first_day[1]
                    /\ \A j \in LoopFetches(fetched') : j < i => fetched'[j][2] < d
          /\ \A r \in (climate_measurements' \ climate_measurements)
                      \cup (weather_measurements' \ weather_measurements) :
                date_naive(r.time) >= first_day[1]]_vars

C21_Witness ==
    /\ pc = "run_done" /\ run = 1
    /\ first_day = Some(1)
    /\ 0 \in DOMAIN gaps_by_day /\ gaps_by_day[0] # <<>>
    /\ {fetched[i][2] : i \in LoopFetches(fetched)} = {1, 2}
    /\ \E r \in RowsOfSource(HISTORICAL) : date_naive(r.time) = 2
    /\ ~\E r \in RowsOfSource(HISTORICAL) : date_naive(r.time) = 0

\* The rows of a store an earlier backfill wrote.
HistoricalOnly(store) == {r \in store : r.source = HISTORICAL}

\* C22: the gaps reported for the zone are those of its stored historical
\* rows alone: rows of another source do not change them.
C22_GapsFromHistoricalOnly ==
    gap_pc = "done" =>
        gaps_by_day = find_zone_gaps(HistoricalOnly(climate_measurements),
                                     DbHomeId, ZoneA, start, now, min_gap)

\* The days a log of fetches holds probes of.
ProbedDays(log) == {log[i][2] : i \in {k \in 1..Len(log) : log[k][3] = "probe"}}

\* C23: whatever the pattern of bogus days, the search returns none or a
\* day it probed, not bogus, and the earliest of the probed days that are
\* not bogus; it returns none when every day of the span is bogus; and on
\* none the zone is left without a further fetch, a write or an error.
C23_EarliestProbedNonBogus ==
    [][/\ (pc' = "classified" /\ cls_start' <= cls_end') =>
             /\ candidate' # None =>
                   /\ candidate'[1] \in ProbedDays(fetched')
                   /\ ~is_day_report_bogus(remote[candidate'[1]])
                   /\ \A e \in ProbedDays(fetched') :
                         ~is_day_report_bogus(remote[e]) => candidate'[1] <= e
             /\ (\A d \in cls_start'..cls_end' : is_day_report_bogus(remote[d]))
                   => candidate' = None
       /\ (pc = "classified" /\ candidate = None) =>
             /\ pc' = "zone_loop"
             /\ result' # "Err"
             /\ fetched' = fetched
             /\ UNCHANGED storeVars]_vars

C23_Witness ==
    /\ pc = "classified"
    /\ cls_start = 0 /\ cls_end = 2
    /\ ~is_day_report_bogus(remote[0])
    /\ is_day_report_bogus(remote[1])
    /\ candidate = Some(2)
    /\ ProbedDays(fetched) = {1, 2}

\* An instant inside some gap of a list: after its start, or at it when
\* the start is inclusive, and before its end.
InsideSomeGap(ts, gaps) ==
    \E i \in 1..Len(gaps) :
        /\ ts < gaps[i].end
        /\ ts > gaps[i].start \/ (gaps[i].start_inclusive /\ ts = gaps[i].start)

\* C24: every climate row and weather row a day of the day loop emits is at
\* an instant inside a gap of that day, and no climate row is at an instant
\* the zone had a stored row at when the gaps were computed.
C24_RowsInsideGaps ==
    [][(pc = "day_loop" /\ result' # "Err") =>
          LET gaps == gaps_by_day[Head(pending)]
          IN  /\ \A i \in 1..Len(rows') :
                    /\ InsideSomeGap(rows'[i].time, gaps)
                    /\ \A q \in climate_measurements :
                          (q.home_id = rows'[i].home_id /\ q.zone_id = rows'[i].zone_id)
                              => q.time # rows'[i].time
              /\ \A i \in 1..Len(weather_by_ts') :
                    InsideSomeGap(weather_by_ts'[i].time, gaps)]_vars

C24_Witness ==
    /\ DayMerged
    /\ rows # <<>> /\ weather_by_ts # <<>>
    /\ StoredRow(GridStep, ZoneA, HISTORICAL) \in climate_measurements
    /\ \E i \in 1..Len(remote[0].inside_temperature) :
          /\ remote[0].inside_temperature[i].timestamp = Some(GridStep)
          /\ remote[0].inside_temperature[i].celsius # None
    /\ \A i \in 1..Len(rows) : rows[i].time # GridStep

\* ---------------------------------------------- realtime rows: properties
\* The first timestamp present in a list of optional timestamps, or else
\* the fallback.
FirstPresent(candidates, fallback) ==
    LET present == {i \in DOMAIN candidates : candidates[i] # None}
    IN  IF present = {} THEN fallback
        ELSE candidates[CHOOSE i \in present : \A j \in present : i <= j][1]

ZoneCandidates(state) ==
    <<PointTs(state.sensor_data_points, "inside_temperature"),
      PointTs(state.sensor_data_points, "humidity"),
      PointTs(state.activity_data_points, "heating_power"),
      PointTs(state.activity_data_points, "ac_power")>>

WeatherCandidates(weather) ==
    <<IF weather.outside_temperature = None THEN None
      ELSE weather.outside_temperature[1].timestamp,
      IF weather.solar_intensity = None THEN None
      ELSE weather.solar_intensity[1].timestamp>>

DeviceCandidates(d) ==
    <<IF d.connection_state = None THEN None ELSE d.connection_state[1].timestamp>>

\* C25: the timestamp of a realtime row the poller stores is the first
\* present of the answer's own timestamps, or else the wall clock of the
\* call: inside temperature, humidity, heating power, AC power for a zone
\* row; outside temperature, solar intensity for a weather row; the
\* connection state for a device row.
C25_TimestampSelection ==
    [][/\ pc = "zones" =>
             \A r \in climate_measurements' \ climate_measurements :
                 /\ r.zone_id # None /\ r.source = REALTIME
                 /\ \E state \in live.zone :
                        r.time = FirstPresent(ZoneCandidates(state), now)
       /\ pc = "weather" =>
             \A r \in weather_measurements' \ weather_measurements :
                 /\ r.source = REALTIME
                 /\ \E weather \in live.weather :
                        r.time = FirstPresent(WeatherCandidates(weather), now)
       /\ pc = "devices" =>
             \A r \in climate_measurements' \ climate_measurements :
                 /\ r.device_id # None /\ r.source = REALTIME
                 /\ \E d \in live.device :
                        r.time = FirstPresent(DeviceCandidates(d), now)]_vars

\* The zone answers with a heating-power and an AC-power timestamp and no
\* sensor timestamp: the stored zone rows carry the heating-power
\* timestamp, while a device row and a weather row carry the wall clock
\* of the second tick.
C25_Witness ==
    /\ \E state \in live.zone :
          /\ live.zone = {state}
          /\ ZoneCandidates(state) = <<None, None, Some(3), Some(4)>>
    /\ \E r \in climate_measurements : r.zone_id # None /\ r.time = 3
    /\ \A r \in climate_measurements : r.zone_id # None => r.time = 3
    /\ \E r \in climate_measurements : r.device_id # None /\ r.time = 4
    /\ \E r \in weather_measurements : r.time > 4

\* ------------------------------------------- weather rows: properties
WeatherPopulated(r) == r.outside_temp_c # None \/ r.weather_state # None

\* C26: every historical weather row the day loop emits for a day, and
\* every historical weather row stored, has an outside temperature or a
\* weather state.
C26_WeatherRowPopulated ==
    /\ \A i \in DOMAIN weather_by_ts : WeatherPopulated(weather_by_ts[i])
    /\ \A r \in weather_measurements :
          r.source = HISTORICAL => WeatherPopulated(r)

\* ------------------------------------------- classifier: cost of a search
\* The probes of a log of fetches, in order.
Probes(log) == {i \in 1..Len(log) : log[i][3] = "probe"}

\* floor(log2(n)) for n >= 1.
Log2Floor(n) == CHOOSE k \in 0..n : 2 ^ k <= n /\ n < 2 ^ (k + 1)

SpanDays == cls_end - cls_start + 1

\* A search is under way or over: its probes are fetches of distinct days
\* of the span, at most floor(log2(n)) + 1 of them, fewer while the loop
\* has a pass to go.
ProbesLogarithmic ==
    /\ \A i \in Probes(fetched) : fetched[i][2] \in cls_start..cls_end
    /\ \A i, j \in Probes(fetched) : i # j => fetched[i][2] # fetched[j][2]
    /\ Len(fetched) = Cardinality(Probes(fetched))
    /\ Cardinality(Probes(fetched)) <= Log2Floor(SpanDays) + 1
    /\ pc = "probe" => Cardinality(Probes(fetched)) <= Log2Floor(SpanDays)

\* C27 (as claimed): the search over a span of n days makes at most
\* floor(log2(n)) + 1 probes, each one fetch of a distinct day of the span,
\* and for n >= 2 it leaves a day of the span unfetched.
C27_NeverEveryDayFromTwo ==
    (pc \in {"probe", "classified", "run_failed"} /\ cls_start <= cls_end) =>
        /\ ProbesLogarithmic
        /\ SpanDays >= 2 => ProbedDays(fetched) # cls_start..cls_end

\* C27 (amended): the search over a span of n days makes at most
\* floor(log2(n)) + 1 probes, each one fetch of a distinct day of the span,
\* and the loop ends within that many passes; for n >= 3 it leaves a day of
\* the span unfetched, while a span of two days whose first day is bogus
\* has both days fetched.
C27_Logarithmic ==
    (pc \in {"probe", "classified", "run_failed"} /\ cls_start <= cls_end) =>
        /\ ProbesLogarithmic
        /\ SpanDays >= 3 => ProbedDays(fetched) # cls_start..cls_end
        /\ (SpanDays = 2 /\ pc = "classified" /\ is_day_report_bogus(remote[cls_start]))
              => ProbedDays(fetched) = cls_start..cls_end

\* A search over six days that took floor(log2(6)) + 1 = 3 probes.
C27_Witness ==
    /\ pc = "classified"
    /\ SpanDays = 6
    /\ Cardinality(Probes(fetched)) = 3
    /\ candidate # None

\* -------------------------------------------- startup: errors of backfill
BackfillPcs == {"run_start", "zone_loop", "cls_call", "probe", "classified", "day_loop"}
FailedPcs == {"run_failed", "store_failed"}

\* C28: a step of the backfill that ends in an error (a failed fetch, a
\* failed read or a failed write of the store) is the last step of the
\* process: no later zone of the home has had a fetch, the loop over the
\* homes has not advanced, the realtime loop has not begun and no realtime
\* row is stored, and no step follows the error.
C28_BackfillErrorStopsStartup ==
    [][/\ pc \notin FailedPcs
       /\ (pc \in BackfillPcs /\ result' = "Err") =>
             /\ pc' \in FailedPcs
             /\ UNCHANGED <<zone_idx, main_idx, rtVars>>
             /\ ticks' = <<>> /\ home_db_ids' = <<>> /\ visited' = {}
             /\ RowsOfSource(REALTIME)' = {}
             /\ main_idx = 1 =>
                   \A i \in 1..Len(fetched') :
                       \E k \in 1..Min(zone_idx, Len(zones)) :
                           zones[k].id = Some(fetched'[i][1])]_vars

\* The weather insert of the first zone of the first home failed after the
\* climate insert: rows are stored, a later zone and a later home are left,
\* and the realtime loop is enabled.
C28_Witness ==
    /\ pc = "store_failed" /\ result = "Err"
    /\ main_idx = 1 /\ main_idx < Len(home_ids)
    /\ zone_idx = 1
    /\ \E k \in (zone_idx + 1)..Len(zones) :
          zones[k].id # None /\ zones[k].date_created # None
    /\ realtime_enabled
    /\ climate_measurements # {} /\ weather_measurements = {}

\* ------------------------------------------ realtime rows: first write wins
RealtimeClimate(store) == {r \in store : r.source = REALTIME}

\* The key of a realtime row of a zone or device: time, home, zone or device.
RealtimeKey(r) == <<r.time, r.home_id, r.zone_id, r.device_id>>

OnePerRealtimeKey(climate, weather) ==
    /\ \A r, q \in RealtimeClimate(climate) :
          RealtimeKey(r) = RealtimeKey(q) => r = q
    /\ \A r, q \in RealtimeClimate(weather) :
          (r.time = q.time /\ r.home_id = q.home_id) => r = q

\* C29: a step of the poller leaves every stored row as it was, whatever
\* the answer it got: a row whose timestamp, home and zone or device are
\* stored is skipped even when its readings differ, so the stored row keeps
\* the readings of the first tick, and at most one realtime row is stored
\* per time, home and zone or device, and per time and home for weather.
C29_FirstWriteWins ==
    [][(pc \in RealtimePcs) =>
          (/\ climate_measurements \subseteq climate_measurements'
           /\ weather_measurements \subseteq weather_measurements'
           /\ OnePerRealtimeKey(climate_measurements', weather_measurements'))]_vars

\* The second tick has asked for the state of a zone whose answers carry
\* one sensor timestamp and one of two setpoints: one row of the zone is
\* stored, at the sensor's timestamp.
C29_Witness ==
    /\ live.zone = SetpointChanged
    /\ CurrentTick = 2
    /\ pc = "devices"
    /\ \E r \in climate_measurements :
          /\ r.zone_id = Some(ZoneA) /\ r.time = 1 /\ r.setpoint_temp_c = Some(T21)
          /\ \A q \in climate_measurements : q.zone_id = Some(ZoneA) => q = r

\* ------------------------------------- bogus-day predicate: absent data
\* The report holds a temperature or a humidity value.
HasIndoorValue(report) ==
    \/ \E i \in DOMAIN report.inside_temperature :
          report.inside_temperature[i].celsius # None
    \/ \E i \in DOMAIN report.humidity : report.humidity[i].value # None

\* The report holds a weather condition interval or a weather slot.
HasWeatherData(report) ==
    report.weather_condition # <<>> \/ report.weather_slots # <<>>

\* C30: a day is classified bogus only when its report holds an indoor
\* value and a weather interval or slot; a report without any indoor value,
\* or without any weather interval and slot, is classified non-bogus, and
\* the search returns its day.
C30_AbsentDataNonBogus ==
    DayClassified =>
        /\ ClassifiedBogus =>
              (HasIndoorValue(remote[cls_start]) /\ HasWeatherData(remote[cls_start]))
        /\ ~(HasIndoorValue(remote[cls_start]) /\ HasWeatherData(remote[cls_start]))
              => (/\ ~is_day_report_bogus(remote[cls_start])
                  /\ candidate = Some(cls_start))

\* The search returned a day whose report is empty.
C30_Witness ==
    /\ DayClassified
    /\ remote[cls_start].inside_temperature = <<>>
    /\ remote[cls_start].humidity = <<>>
    /\ remote[cls_start].weather_condition = <<>>
    /\ remote[cls_start].weather_slots = <<>>
    /\ candidate = Some(cls_start)
====
